---- MODULE Spec2Model ----
(***************************************************************************)
(* Format resolution of the yt-dlp extractors CBS, HiDive, Odnoklassniki  *)
(* and Zattoo: aggregation of formats over asset types / manifests, the   *)
(* seen set of fetched manifests, ranking before return, and the Zattoo   *)
(* session initialisation.  Each extractor is a state machine of its own  *)
(* (SpecCBS, SpecHiDive, SpecOK, SpecZattoo); the variables of the other   *)
(* extractors stay at their idle values.  SpecSession runs one instance   *)
(* of Zattoo or HiDive over several resolutions; SpecDirector is the       *)
(* dispatch of a request over the registered handlers, SpecRanker the      *)
(* sort applied after aggregation, SpecSubtitles the subtitle lists of     *)
(* CBS and RTP.                                                            *)
(***************************************************************************)
EXTENDS Integers, Sequences, FiniteSets, TLC

VARIABLES
    \* ---- CBSIE._extract_video_info (cbs.py)
    cbs_pc,          \* position in _extract_video_info
    cbs_items,       \* assetType of each <item> of items_data, in document order
    cbs_idx,         \* index of the item the for loop is at
    cbs_asset_types, \* asset_types
    cbs_formats,     \* formats
    cbs_subtitles,   \* subtitles
    cbs_last_e,      \* last_e
    cbs_raised,      \* the exception that left _extract_video_info, if any
    cbs_log,         \* history: one entry per call of _extract_theplatform_smil
    \* ---- HiDiveIE (hidive.py)
    hd_pc,           \* position in _real_initialize / _real_extract
    hd_lang,         \* self._preferred_content_language
    hd_n,            \* len(settings)
    hd_sidx,         \* index of the setting the loop of _real_extract is at
    hd_setting,      \* a_setting, the argument of _parse_one_setting
    hd_ridx,         \* index of the rendition the first loop is at
    hd_formats,      \* formats
    hd_subtitles,    \* subtitles
    hd_parsed_urls,  \* parsed_urls
    hd_raised,       \* the exception that left the extractor, if any
    hd_fetches,      \* history: calls of _extract_m3u8_formats per url
    hd_repeated,     \* history: manifest urls a rendition named when already seen
    hd_offered,      \* history: (language, url) of the caption files the settings held
    \* ---- OdnoklassnikiIE (odnoklassniki.py)
    ok_pc,           \* position in _real_extract / _extract_desktop / _extract_mobile
    ok_mode,         \* mode: 'videoembed' or 'video'
    ok_referrer,     \* smuggled['referrer']
    ok_player,       \* player, the data-options of the desktop page
    ok_metadata,     \* metadata
    ok_formats,      \* formats
    ok_desktop_e,    \* e, the ExtractorError caught at line 173
    ok_raised,       \* the exception that left _real_extract, if any
    ok_result,       \* the kind of result returned
    ok_pages,        \* history: downloads of the desktop page
    ok_mobile_pages, \* history: downloads of the mobile page
    ok_fetches,      \* history: calls of _extract_m3u8_formats per url
    \* ---- ZattooPlatformBaseIE / ZattooIE (zattoo.py)
    zt_pc,           \* position in _real_initialize / _real_extract
    zt_login_info,   \* (username, password) as _get_login_info returns them
    zt_power_guide_hash, \* self._power_guide_hash
    zt_login_response, \* history: the answer to the account/login request
    zt_requests,     \* history: the requests _real_initialize dispatched
    zt_kind,         \* the branch of _real_extract taken
    zt_stream,       \* index of stream_type in ('dash', 'hls7')
    zt_wn,           \* len(watch_urls)
    zt_widx,         \* index of the watch entry the inner loop is at
    zt_formats,      \* formats
    zt_subtitles,    \* subtitles
    zt_result,       \* the keys of the MediaResult that carry formats
    zt_raised,       \* the exception that left the extractor, if any
    \* ---- RequestDirector over REQUEST_HANDLERS (networking/__init__.py)
    rd_pc,           \* position in dispatch
    rd_handlers,     \* the registered handlers, in registration order
    rd_request,      \* the RequestSpec dispatched
    rd_chosen,       \* index of the handler selected, 0 when there is none
    rd_executed,     \* history: indices of the handlers that executed the request
    rd_outcome,      \* the Response or the error dispatch ended in
    \* ---- FormatRanker (_sort_formats as called by cbs.py, zattoo.py, ...)
    rk_pc,           \* position: the lists are given / are ranked
    rk_formats,      \* a format list as aggregation left it
    rk_reordered,    \* the same formats discovered in another order
    rk_ranked,       \* rk_formats after _sort_formats
    rk_reranked,     \* rk_reordered after _sort_formats
    \* ---- subtitle lists of CBSBaseIE._parse_smil_subtitles and RTPIE
    sb_pc,           \* position: which extractor builds the lists, or built
    sb_params,       \* cbs.py: value of each caption <param> of the SMIL
    sb_vtt,          \* rtp.py: config.get('vtt')
    sb_subtitles,    \* subtitles
    \* ---- ParamountPlusSeriesIE (cbs.py)
    pp_pc,           \* position of _real_extract and of the generator _entries
    pp_data,         \* show_json['result']['data'] once the listing is downloaded
    pp_requests,     \* history: listing requests dispatched
    pp_asked,        \* history: children the consumer asked for
    pp_entries,      \* the url_results the generator has yielded
    \* ---- PodchaserIE (podchaser.py)
    pod_pc,          \* position in _real_extract
    pod_audio_id,    \* whether the url names an episode (audio_id)
    pod_total,       \* total_episode_count
    pod_i,           \* i, the page the loop is at
    pod_episodes,    \* len(episodes)
    pod_requests,    \* history: listing requests of the loop dispatched
    pod_dropped,     \* history: pages the test of line 79 did not take
    pod_result,      \* the kind of result returned
    pod_raised       \* the exception that left _real_extract, if any

cbsVars == <<cbs_pc, cbs_items, cbs_idx, cbs_asset_types, cbs_formats,
             cbs_subtitles, cbs_last_e, cbs_raised, cbs_log>>

hdVars == <<hd_pc, hd_lang, hd_n, hd_sidx, hd_setting, hd_ridx, hd_formats,
            hd_subtitles, hd_parsed_urls, hd_raised, hd_fetches, hd_repeated,
            hd_offered>>

okVars == <<ok_pc, ok_mode, ok_referrer, ok_player, ok_metadata, ok_formats, ok_desktop_e,
            ok_raised, ok_result, ok_pages, ok_mobile_pages, ok_fetches>>

ztVars == <<zt_pc, zt_login_info, zt_power_guide_hash, zt_login_response,
            zt_requests, zt_kind,
            zt_stream, zt_wn, zt_widx, zt_formats, zt_subtitles, zt_result,
            zt_raised>>

rdVars == <<rd_pc, rd_handlers, rd_request, rd_chosen, rd_executed, rd_outcome>>

rkVars == <<rk_pc, rk_formats, rk_reordered, rk_ranked, rk_reranked>>

sbVars == <<sb_pc, sb_params, sb_vtt, sb_subtitles>>

ppVars == <<pp_pc, pp_data, pp_requests, pp_asked, pp_entries>>

podVars == <<pod_pc, pod_audio_id, pod_total, pod_i, pod_episodes,
             pod_requests, pod_dropped, pod_result, pod_raised>>

vars == <<cbsVars, hdVars, okVars, ztVars, rdVars, rkVars, sbVars, ppVars, podVars>>

\* what the actions of one extractor leave alone
notCBS == <<hdVars, okVars, ztVars, rdVars, rkVars, sbVars, ppVars, podVars>>
notHD == <<cbsVars, okVars, ztVars, rdVars, rkVars, sbVars, ppVars, podVars>>
notOK == <<cbsVars, hdVars, ztVars, rdVars, rkVars, sbVars, ppVars, podVars>>
notZT == <<cbsVars, hdVars, okVars, rdVars, rkVars, sbVars, ppVars, podVars>>
notRD == <<cbsVars, hdVars, okVars, ztVars, rkVars, sbVars, ppVars, podVars>>
notRK == <<cbsVars, hdVars, okVars, ztVars, rdVars, sbVars, ppVars, podVars>>
notSB == <<cbsVars, hdVars, okVars, ztVars, rdVars, rkVars, ppVars, podVars>>
notPP == <<cbsVars, hdVars, okVars, ztVars, rdVars, rkVars, sbVars, podVars>>
notPOD == <<cbsVars, hdVars, okVars, ztVars, rdVars, rkVars, sbVars, ppVars>>

-----------------------------------------------------------------------------
(* Bounds *)

MaxItems == 3

MaxSettings == 2

MaxWatch == 2

\* handlers registered with the RequestDirector
MaxHandlers == 3

\* formats in a list handed to the FormatRanker
MaxFormats == 3

\* entries of the vtt list of an RTP config
MaxVtt == 2

\* episodes in the listing of a Paramount+ series
MaxEpisodes == 3

\* pages of the episode listing of a Podchaser podcast
MaxPages == 3

-----------------------------------------------------------------------------
(* Shared data: formats, subtitles, errors *)

None == "None"

Langs == {"en", "ja"}

\* A FormatDescriptor: url, format_id and the ranking keys.  A key the
\* extractor does not set is -1 (missing values rank lowest).
Fmt(url, format_id, preference, language_preference, quality, tbr) ==
    [url |-> url, format_id |-> format_id, preference |-> preference,
     language_preference |-> language_preference, quality |-> quality,
     tbr |-> tbr]

NoError == [kind |-> "none", at |-> 0]
Error(kind, at) == [kind |-> kind, at |-> at]

\* Python truth of a string or None
Truthy(v) == v \notin {None, ""}

Range(s) == {s[i] : i \in 1..Len(s)}

SeqsUpTo(S, n) == UNION {[1..k -> S] : k \in 0..n}

EmptySubtitles == [l \in Langs |-> <<>>]

\* The ranking key of FormatRanker, most significant first.
SortKey(f) == <<f.preference, f.language_preference, f.quality, f.tbr>>

KeyLess(a, b) ==
    \E k \in 1..Len(a) : a[k] < b[k] /\ \A j \in 1..(k - 1) : a[j] = b[j]

\* An insertion that puts f before the formats of equal key as well.
InsertAtUnstable(s, f) ==
    LET notBetter == {i \in 1..Len(s) : ~KeyLess(SortKey(f), SortKey(s[i]))}
    IN  IF notBetter = {} THEN Len(s) + 1
        ELSE CHOOSE i \in notBetter : \A j \in notBetter : i <= j

\* Position at which f enters a ranked list: before the first format that
\* ranks strictly below it, so formats of equal key keep discovery order.
InsertAt(s, f) ==
    LET worse == {i \in 1..Len(s) : KeyLess(SortKey(s[i]), SortKey(f))}
    IN  IF worse = {} THEN Len(s) + 1
        ELSE CHOOSE i \in worse : \A j \in worse : i <= j

RECURSIVE SortFormats(_)
SortFormats(fs) ==
    IF fs = <<>> THEN <<>>
    ELSE LET f == fs[Len(fs)]
         IN  \* front ranges over a one-element set: the sorted front is
             \* computed once for each format inserted
             CHOOSE sorted \in
                 { SubSeq(front, 1, InsertAt(front, f) - 1) \o <<f>>
                       \o SubSeq(front, InsertAt(front, f), Len(front)) :
                   front \in {SortFormats(SubSeq(fs, 1, Len(fs) - 1))} } : TRUE

RECURSIVE MergeItems(_, _)
MergeItems(a, b) ==
    IF b = <<>> THEN a
    ELSE MergeItems(IF \E i \in 1..Len(a) : a[i].url = b[1].url
                    THEN a ELSE Append(a, b[1]), Tail(b))

MergeSubtitles(a, b) == [l \in Langs |-> MergeItems(a[l], b[l])]

-----------------------------------------------------------------------------
(* CBS: CBSIE._extract_video_info *)

\* assetType texts an <item> may carry; "" is an item without assetType.
CBSAssetTypeNames ==
    {"", "HLS_CLEAR", "RTMP", "StreamPack", "HLS_FPS_PRECON", "DASH_CENC"}

\* 'HLS_FPS' in asset_type or 'DASH_CENC' in asset_type
IsDRM(asset_type) == asset_type \in {"HLS_FPS_PRECON", "DASH_CENC"}

\* What _extract_theplatform_smil returns when it does not raise.
CBSSmilResults ==
    { [formats |-> <<>>, subtitles |-> EmptySubtitles],
      [formats |-> <<Fmt("u1", "a-1", -1, -1, -1, 2)>>,
       subtitles |-> [EmptySubtitles EXCEPT !["en"] = <<[url |-> "s1", ext |-> "tt"]>>]],
      [formats |-> <<Fmt("u2", "b-1", -1, -1, -1, 1),
                      Fmt("u3", "b-2", -1, -1, -1, 3)>>,
       subtitles |-> EmptySubtitles] }

\* a test that passes over no repeated name
CBSSkipNoRepeat(asset_type, asset_types) ==
    asset_type = "" \/ IsDRM(asset_type)

\* line 87: the items the loop passes over
CBSSkip(asset_type, asset_types) ==
    \/ asset_type = ""
    \/ asset_type \in Range(asset_types)
    \/ IsDRM(asset_type)

\* line 103: last_e = e
CBSRecordFirstError(last_e, e) == IF last_e = NoError THEN e ELSE last_e
CBSRecordError(last_e, e) == e

\* line 105: formats.extend(tp_formats)
CBSExtendUnique(formats, tp_formats) ==
    formats \o SelectSeq(tp_formats,
                         LAMBDA f : \A i \in 1..Len(formats) : formats[i].url # f.url)
CBSExtendDropped(formats, tp_formats) == formats
CBSExtend(formats, tp_formats) == formats \o tp_formats

\* line 107: if last_e and not formats
CBSRaiseOnAnyError(last_e, formats) == last_e # NoError
CBSShouldRaise(last_e, formats) == last_e # NoError /\ formats = <<>>

CBSInit ==
    /\ cbs_pc = "init"
    /\ cbs_items = <<>>
    /\ cbs_idx = 1
    /\ cbs_asset_types = <<>>
    /\ cbs_formats = <<>>
    /\ cbs_subtitles = EmptySubtitles
    /\ cbs_last_e = NoError
    /\ cbs_raised = NoError
    /\ cbs_log = <<>>

\* the state of an extractor that is not run
CBSIdle ==
    /\ cbs_pc = "idle"
    /\ cbs_items = <<>>
    /\ cbs_idx = 1
    /\ cbs_asset_types = <<>>
    /\ cbs_formats = <<>>
    /\ cbs_subtitles = EmptySubtitles
    /\ cbs_last_e = NoError
    /\ cbs_raised = NoError
    /\ cbs_log = <<>>

\* lines 73-79: the player-service document is downloaded; video_data is its
\* first <item>, and xpath_text on a missing one raises.
CBSDownloadItems ==
    /\ cbs_pc = "init"
    /\ \/ /\ cbs_pc' = "fail"
          /\ cbs_raised' = Error("primary", 0)
          /\ UNCHANGED cbs_items
       \/ \E its \in SeqsUpTo(CBSAssetTypeNames, MaxItems) :
             /\ cbs_items' = its
             /\ IF its = <<>>
                THEN cbs_pc' = "fail" /\ cbs_raised' = Error("no_item", 0)
                ELSE cbs_pc' = "loop" /\ UNCHANGED cbs_raised
    /\ UNCHANGED <<cbs_idx, cbs_asset_types, cbs_formats, cbs_subtitles,
                   cbs_last_e, cbs_log>>
    /\ UNCHANGED notCBS

\* lines 85-88: continue
CBSSkipItem ==
    /\ cbs_pc = "loop"
    /\ cbs_idx <= Len(cbs_items)
    /\ CBSSkip(cbs_items[cbs_idx], cbs_asset_types)
    /\ cbs_idx' = cbs_idx + 1
    /\ UNCHANGED <<cbs_pc, cbs_items, cbs_asset_types, cbs_formats,
                   cbs_subtitles, cbs_last_e, cbs_raised, cbs_log>>
    /\ UNCHANGED notCBS

\* lines 89-104: _extract_theplatform_smil raises ExtractorError
CBSSmilFails ==
    /\ cbs_pc = "loop"
    /\ cbs_idx <= Len(cbs_items)
    /\ ~CBSSkip(cbs_items[cbs_idx], cbs_asset_types)
    /\ cbs_asset_types' = Append(cbs_asset_types, cbs_items[cbs_idx])
    /\ cbs_last_e' = CBSRecordError(cbs_last_e, Error("asset", cbs_idx))
    /\ cbs_log' = Append(cbs_log, [at |-> cbs_idx, ok |-> FALSE,
                                   formats |-> <<>>, subtitles |-> EmptySubtitles])
    /\ cbs_idx' = cbs_idx + 1
    /\ UNCHANGED <<cbs_pc, cbs_items, cbs_formats, cbs_subtitles, cbs_raised>>
    /\ UNCHANGED notCBS

\* lines 89-106: _extract_theplatform_smil returns
CBSSmilReturns ==
    /\ cbs_pc = "loop"
    /\ cbs_idx <= Len(cbs_items)
    /\ ~CBSSkip(cbs_items[cbs_idx], cbs_asset_types)
    /\ \E r \in CBSSmilResults :
          /\ cbs_formats' = CBSExtend(cbs_formats, r.formats)
          /\ cbs_subtitles' = MergeSubtitles(cbs_subtitles, r.subtitles)
          /\ cbs_log' = Append(cbs_log, [at |-> cbs_idx, ok |-> TRUE,
                                         formats |-> r.formats,
                                         subtitles |-> r.subtitles])
    /\ cbs_asset_types' = Append(cbs_asset_types, cbs_items[cbs_idx])
    /\ cbs_idx' = cbs_idx + 1
    /\ UNCHANGED <<cbs_pc, cbs_items, cbs_last_e, cbs_raised>>
    /\ UNCHANGED notCBS

\* lines 107-108: after the loop
CBSAggregate ==
    /\ cbs_pc = "loop"
    /\ cbs_idx > Len(cbs_items)
    /\ IF CBSShouldRaise(cbs_last_e, cbs_formats)
       THEN cbs_pc' = "fail" /\ cbs_raised' = cbs_last_e
       ELSE cbs_pc' = "rank" /\ UNCHANGED cbs_raised
    /\ UNCHANGED <<cbs_items, cbs_idx, cbs_asset_types, cbs_formats,
                   cbs_subtitles, cbs_last_e, cbs_log>>
    /\ UNCHANGED notCBS

\* line 109: self._sort_formats(formats); an empty list is NoFormatsFound
CBSSort ==
    /\ cbs_pc = "rank"
    /\ IF cbs_formats = <<>>
       THEN /\ cbs_pc' = "fail"
            /\ cbs_raised' = Error("NoFormatsFound", 0)
            /\ UNCHANGED cbs_formats
       ELSE /\ cbs_pc' = "meta"
            /\ cbs_formats' = SortFormats(cbs_formats)
            /\ UNCHANGED cbs_raised
    /\ UNCHANGED <<cbs_items, cbs_idx, cbs_asset_types, cbs_subtitles,
                   cbs_last_e, cbs_log>>
    /\ UNCHANGED notCBS

\* lines 111-123: the metadata request, then the MediaResult is returned
CBSReturn ==
    /\ cbs_pc = "meta"
    /\ \/ cbs_pc' = "done" /\ UNCHANGED cbs_raised
       \/ cbs_pc' = "fail" /\ cbs_raised' = Error("metadata", 0)
    /\ UNCHANGED <<cbs_items, cbs_idx, cbs_asset_types, cbs_formats,
                   cbs_subtitles, cbs_last_e, cbs_log>>
    /\ UNCHANGED notCBS

CBSNext ==
    \/ CBSDownloadItems
    \/ CBSSkipItem
    \/ CBSSmilFails
    \/ CBSSmilReturns
    \/ CBSAggregate
    \/ CBSSort
    \/ CBSReturn


-----------------------------------------------------------------------------
(* HiDive: HiDiveIE._real_initialize, _real_extract, _parse_one_setting *)

HDManifestURLs == {"m1", "m2"}
HDValidURLs == HDManifestURLs \cup {"c1", "c2"}

\* url_or_none: a value that is not a URL string becomes None
UrlOrNone(v) == IF v \in HDValidURLs THEN v ELSE None

\* str.replace(' ', '-').lower() on the caption names used here
HDLower(name) ==
    CASE name = "English" -> "english"
      [] name = "Japanese" -> "japanese"
      [] OTHER -> name

\* a ccFiles entry is [code, name, url]
HDCcFile(code, name, url) == [code |-> code, name |-> name, url |-> url]

\* line 128: try_get(cc_file, (x[1].replace(' ', '-').lower(), x[0]), str):
\* the first getter whose value is a str, the empty string included
HDCcLang(cc) ==
    IF cc.name # None THEN HDLower(cc.name)
    ELSE cc.code

HDSubtitleLangs == {"english", "japanese", "en", "ja"}

HDEmptySubtitles == [l \in HDSubtitleLangs |-> <<>>]

HDCcLists ==
    { <<>>,
      <<HDCcFile("en", "English", "c1")>>,
      <<HDCcFile("ja", "Japanese", "c1"), HDCcFile("en", "English", "m1")>>,
      <<HDCcFile("en", None, "bogus"), HDCcFile("en", "", "c2")>> }

\* a rendition: its id 'audio_version_extra' (id_parts pieces between '_'),
\* bitrates.hls and ccFiles
HDRenditions ==
    [audio : Langs, id_parts : {3}, hls : HDManifestURLs \cup {"bogus"},
     ccFiles : HDCcLists]
    \cup {[audio |-> "und", id_parts |-> 2, hls |-> "m1", ccFiles |-> <<>>]}

\* the renditions of one setting: a dict, so the ids differ
HDRenditionLists ==
    {rs \in SeqsUpTo(HDRenditions, Cardinality(Langs)) :
        \A i, j \in 1..Len(rs) : rs[i].audio = rs[j].audio => i = j}

HDNoSetting ==
    [restrictionReason |-> None, has_renditions |-> FALSE, renditions |-> <<>>]

\* what _call_api may have returned: {} (the 'or {}' of line 102), a
\* restricted setting, or a setting with renditions
HDSettings ==
    {HDNoSetting}
    \cup [restrictionReason : {"RegionRestricted", "Premium"},
          has_renditions : {TRUE}, renditions : {<<>>}]
    \cup [restrictionReason : {None}, has_renditions : {TRUE},
          renditions : HDRenditionLists]
    \cup [restrictionReason : {"None"}, has_renditions : {TRUE},
          renditions : {<<>>}]

\* lines 105-110 and the lookup of line 112: how _parse_one_setting starts
HDIgnoreRestriction(setting) ==
    IF ~setting.has_renditions THEN "KeyError" ELSE "ok"
HDEnter(setting) ==
    IF setting.restrictionReason = "RegionRestricted" THEN "GeoRestricted"
    ELSE IF Truthy(setting.restrictionReason) /\ setting.restrictionReason # "None"
         THEN "ExtractorError"
    ELSE IF ~setting.has_renditions THEN "KeyError"
    ELSE "ok"

\* line 115: if m3u8_url not in parsed_urls
HDFetchAlways(m3u8_url, parsed_urls) == m3u8_url # None
\* a check against a seen set that holds no None
HDNeedFetchNoSentinel(m3u8_url, parsed_urls) ==
    m3u8_url \notin parsed_urls \ {None}
HDNeedFetch(m3u8_url, parsed_urls) == m3u8_url \notin parsed_urls

\* the bitrate of the format the manifest at a url describes
HDManifestTbr(m3u8_url) == IF m3u8_url = "m1" THEN 1000 ELSE 2000

\* a labelling that leaves language_preference unset
HDLabelledNoPreference(rendition, m3u8_url, preferred) ==
    <<[url |-> m3u8_url \o "/v1",
       format_id |-> rendition.audio \o "_dub_hd-1",
       preference |-> -1,
       language_preference |-> -1,
       quality |-> -1,
       tbr |-> HDManifestTbr(m3u8_url),
       language |-> rendition.audio]>>

\* lines 117-122: the formats of one manifest, labelled with the rendition
HDLabelled(rendition, m3u8_url, preferred) ==
    <<[url |-> m3u8_url \o "/v1",
       format_id |-> rendition.audio \o "_dub_hd-1",
       preference |-> -1,
       language_preference |-> IF rendition.audio = preferred THEN 10 ELSE -1,
       quality |-> -1,
       tbr |-> HDManifestTbr(m3u8_url),
       language |-> rendition.audio]>>

\* the caption files of a list that have a url and a language
HDOffers(ccs) ==
    { <<HDCcLang(ccs[i]), UrlOrNone(ccs[i].url)>> :
        i \in {k \in 1..Len(ccs) : /\ UrlOrNone(ccs[k].url) # None
                                    /\ Truthy(HDCcLang(ccs[k]))} }

\* an append that does not consult parsed_urls
HDAddCcUnseen(st, cc) ==
    LET cc_url  == UrlOrNone(cc.url)
        cc_lang == HDCcLang(cc)
    IN  IF Truthy(cc_lang)
        THEN [parsed_urls |-> st.parsed_urls \cup {cc_url},
              subtitles |-> [st.subtitles EXCEPT ![cc_lang] =
                                Append(@, [url |-> cc_url, name |-> cc.name])]]
        ELSE st

\* lines 127-133 for one cc_file; st is [parsed_urls, subtitles]
HDAddCc(st, cc) ==
    LET cc_url  == UrlOrNone(cc.url)
        cc_lang == HDCcLang(cc)
    IN  IF cc_url \notin st.parsed_urls /\ Truthy(cc_lang)
        THEN [parsed_urls |-> st.parsed_urls \cup {cc_url},
              subtitles |-> [st.subtitles EXCEPT ![cc_lang] =
                                Append(@, [url |-> cc_url, name |-> cc.name])]]
        ELSE st

RECURSIVE HDAddCcFiles(_, _)
HDAddCcFiles(st, ccs) ==
    IF ccs = <<>> THEN st ELSE HDAddCcFiles(HDAddCc(st, ccs[1]), Tail(ccs))

\* lines 125-126: the ccFiles of all renditions, in iteration order
RECURSIVE HDAllCcFiles(_)
HDAllCcFiles(renditions) ==
    IF renditions = <<>> THEN <<>>
    ELSE renditions[1].ccFiles \o HDAllCcFiles(Tail(renditions))

HDIdle ==
    /\ hd_pc = "idle"
    /\ hd_lang = None
    /\ hd_n = 0
    /\ hd_sidx = 1
    /\ hd_setting = HDNoSetting
    /\ hd_ridx = 1
    /\ hd_formats = <<>>
    /\ hd_subtitles = HDEmptySubtitles
    /\ hd_parsed_urls = {None}
    /\ hd_raised = NoError
    /\ hd_fetches = [u \in HDManifestURLs |-> 0]
    /\ hd_repeated = {}
    /\ hd_offered = {}

HDInit ==
    /\ hd_pc = "new"
    /\ hd_lang = None
    /\ hd_n = 0
    /\ hd_sidx = 1
    /\ hd_setting = HDNoSetting
    /\ hd_ridx = 1
    /\ hd_formats = <<>>
    /\ hd_subtitles = HDEmptySubtitles
    /\ hd_parsed_urls = {None}
    /\ hd_raised = NoError
    /\ hd_fetches = [u \in HDManifestURLs |-> 0]
    /\ hd_repeated = {}
    /\ hd_offered = {}

\* lines 86-91 (with 71-84): the profile page gives the preferred language,
\* or None when the select or its selected option is missing
HDInitialize ==
    /\ hd_pc = "new"
    /\ \/ /\ \E l \in Langs \cup {None} : hd_lang' = l
          /\ hd_pc' = "ready"
          /\ UNCHANGED hd_raised
       \/ /\ hd_pc' = "fail"
          /\ hd_raised' = Error("initialize", 0)
          /\ UNCHANGED hd_lang
    /\ UNCHANGED <<hd_n, hd_sidx, hd_setting, hd_ridx, hd_formats, hd_subtitles,
                   hd_parsed_urls, hd_fetches, hd_repeated,
                   hd_offered>>
    /\ UNCHANGED notHD

\* lines 136-146: the video page and one settings request per subtitle
\* language.  What a setting holds is read by nothing before its own
\* iteration, so it is drawn when the loop reaches it.
HDFetchPrimary ==
    /\ hd_pc = "ready"
    /\ \/ /\ \E n \in 0..MaxSettings : hd_n' = n
          /\ hd_pc' = "loop"
          /\ UNCHANGED hd_raised
       \/ /\ hd_pc' = "fail"
          /\ hd_raised' = Error("primary", 0)
          /\ UNCHANGED hd_n
    /\ UNCHANGED <<hd_lang, hd_sidx, hd_setting, hd_ridx, hd_formats,
                   hd_subtitles, hd_parsed_urls, hd_fetches, hd_repeated,
                   hd_offered>>
    /\ UNCHANGED notHD

\* lines 148-149 and 105-112: _parse_one_setting is entered
HDBeginSetting ==
    /\ hd_pc = "loop"
    /\ hd_sidx <= hd_n
    /\ \E s \in HDSettings :
          /\ hd_setting' = s
          /\ IF HDEnter(s) = "ok"
             THEN hd_pc' = "m3u8" /\ UNCHANGED hd_raised
             ELSE hd_pc' = "fail" /\ hd_raised' = Error(HDEnter(s), hd_sidx)
    /\ hd_ridx' = 1
    /\ UNCHANGED <<hd_lang, hd_n, hd_sidx, hd_formats, hd_subtitles,
                   hd_parsed_urls, hd_fetches, hd_repeated,
                   hd_offered>>
    /\ UNCHANGED notHD

\* lines 112-123: one iteration of the loop over the renditions
HDRendition ==
    /\ hd_pc = "m3u8"
    /\ hd_ridx <= Len(hd_setting.renditions)
    /\ LET rendition == hd_setting.renditions[hd_ridx]
           m3u8_url  == UrlOrNone(rendition.hls)
       IN  IF rendition.id_parts # 3
           THEN /\ hd_pc' = "fail"
                /\ hd_raised' = Error("ValueError", hd_sidx)
                /\ UNCHANGED <<hd_ridx, hd_formats, hd_parsed_urls, hd_fetches,
                               hd_repeated>>
           ELSE /\ hd_ridx' = hd_ridx + 1
                /\ hd_repeated' = IF m3u8_url # None /\ m3u8_url \in hd_parsed_urls
                                  THEN hd_repeated \cup {m3u8_url}
                                  ELSE hd_repeated
                /\ UNCHANGED <<hd_pc, hd_raised>>
                /\ IF HDNeedFetch(m3u8_url, hd_parsed_urls)
                   THEN /\ hd_parsed_urls' = hd_parsed_urls \cup {m3u8_url}
                        /\ hd_fetches' = [hd_fetches EXCEPT ![m3u8_url] = @ + 1]
                        /\ \E frmt \in {<<>>, HDLabelled(rendition, m3u8_url, hd_lang)} :
                              hd_formats' = hd_formats \o frmt
                   ELSE UNCHANGED <<hd_formats, hd_parsed_urls, hd_fetches>>
    /\ UNCHANGED <<hd_lang, hd_n, hd_sidx, hd_setting, hd_subtitles, hd_offered>>
    /\ UNCHANGED notHD

\* lines 125-133: the loop over the ccFiles; _parse_one_setting returns
HDCaptions ==
    /\ hd_pc = "m3u8"
    /\ hd_ridx > Len(hd_setting.renditions)
    /\ LET st == HDAddCcFiles([parsed_urls |-> hd_parsed_urls,
                               subtitles |-> hd_subtitles],
                              HDAllCcFiles(hd_setting.renditions))
       IN  /\ hd_parsed_urls' = st.parsed_urls
           /\ hd_subtitles' = st.subtitles
    /\ hd_sidx' = hd_sidx + 1
    /\ hd_pc' = "loop"
    /\ hd_setting' = HDNoSetting
    /\ hd_ridx' = 1
    /\ hd_offered' = hd_offered \cup HDOffers(HDAllCcFiles(hd_setting.renditions))
    /\ UNCHANGED <<hd_lang, hd_n, hd_formats, hd_raised, hd_fetches, hd_repeated>>
    /\ UNCHANGED notHD

\* lines 151-162: the MediaResult is returned
HDReturn ==
    /\ hd_pc = "loop"
    /\ hd_sidx > hd_n
    /\ hd_pc' = "done"
    /\ UNCHANGED <<hd_lang, hd_n, hd_sidx, hd_setting, hd_ridx, hd_formats,
                   hd_subtitles, hd_parsed_urls, hd_raised, hd_fetches, hd_repeated,
                   hd_offered>>
    /\ UNCHANGED notHD

\* the instance is used for one more url: _real_initialize has run and is
\* not run again, _real_extract starts over with the session state as it is
HDNextResolution ==
    /\ \/ hd_pc = "done"
       \/ hd_pc = "fail" /\ hd_raised.kind # "initialize"
    /\ hd_pc' = "ready"
    /\ hd_n' = 0
    /\ hd_sidx' = 1
    /\ hd_setting' = HDNoSetting
    /\ hd_ridx' = 1
    /\ hd_formats' = <<>>
    /\ hd_subtitles' = HDEmptySubtitles
    /\ hd_parsed_urls' = {None}
    /\ hd_raised' = NoError
    /\ hd_fetches' = [u \in HDManifestURLs |-> 0]
    /\ hd_repeated' = {}
    /\ hd_offered' = {}
    /\ UNCHANGED hd_lang
    /\ UNCHANGED notHD

HDNext ==
    \/ HDInitialize
    \/ HDFetchPrimary
    \/ HDBeginSetting
    \/ HDRendition
    \/ HDCaptions
    \/ HDReturn
    \/ HDNextResolution


-----------------------------------------------------------------------------
(* Odnoklassniki: OdnoklassnikiIE._real_extract, _extract_desktop,        *)
(* _extract_mobile                                                        *)

OKManifestURLs == {"h1", "h2"}

\* an entry of metadata['videos']
OKVideo(name, url) == [name |-> name, url |-> url]

OKVideoLists ==
    { <<>>,
      <<OKVideo("sd", "v1?type=1")>>,
      <<OKVideo("sd", "v1?type=1"), OKVideo("hd", "v2?type=3")>>,
      <<OKVideo("sd", "v1?type=1"), OKVideo("sd", "v3")>> }

\* line 289: qualities(('4', '0', '1', '2', '3', '5', '6', '7')): the index
\* of the token in the tuple, -1 for any other
OKQualityIds == <<"4", "0", "1", "2", "3", "5", "6", "7">>
quality(fmt_type) ==
    IF \E i \in 1..Len(OKQualityIds) : OKQualityIds[i] = fmt_type
    THEN (CHOOSE i \in 1..Len(OKQualityIds) : OKQualityIds[i] = fmt_type) - 1
    ELSE -1

\* lines 309-311: the digit after 'type/' or 'type=' in the url, or None
OKFmtType(url) ==
    CASE url = "v1?type=1" -> "1"
      [] url = "v2?type=3" -> "3"
      [] url = "h1/500?type=4" -> "4"
      [] OTHER -> None

\* the formats an HLS manifest parses to, ids prefixed with m3u8_id
M3u8Formats(m3u8_url, m3u8_id) ==
    IF m3u8_url = "h1"
    THEN <<Fmt("h1/500?type=4", m3u8_id \o "-500", -1, -1, -1, 500)>>
    ELSE <<Fmt(m3u8_url \o "/500", m3u8_id \o "-500", -1, -1, -1, 500),
           Fmt(m3u8_url \o "/900", m3u8_id \o "-900", -1, -1, -1, 900)>>

\* the formats of the embedded DASH manifest, ids prefixed with mpd_id
MpdFormats(mpd_id) == <<Fmt("d1/v", mpd_id \o "-v", -1, -1, -1, 700)>>

OKRedirectProviders == {"OPEN_GRAPH", "USER_YOUTUBE"}

OKNoMetadata ==
    [provider |-> None, title |-> None, videos |-> <<>>,
     hlsManifestUrl |-> None, metadataEmbedded |-> None,
     hlsMasterPlaylistUrl |-> None, rtmpUrl |-> None, paymentInfo |-> FALSE,
     contentId |-> None]

\* the metadata documents: providers that redirect carry no format sources
\* and may or may not carry movie['contentId']
OKMetadataSet ==
    [provider : OKRedirectProviders, title : {None, "t"}, videos : {<<>>},
     hlsManifestUrl : {None}, metadataEmbedded : {None},
     hlsMasterPlaylistUrl : {None}, rtmpUrl : {None}, paymentInfo : {FALSE},
     contentId : {None, "c1"}]
    \cup
    [provider : {"UPLOADED_ODKL", "LIVE_TV_APP"}, title : {None}, videos : {<<>>},
     hlsManifestUrl : {None}, metadataEmbedded : {None},
     hlsMasterPlaylistUrl : {None}, rtmpUrl : {None}, paymentInfo : {FALSE},
     contentId : {None}]
    \cup
    [provider : {"UPLOADED_ODKL", "LIVE_TV_APP"}, title : {"t"},
     videos : OKVideoLists,
     hlsManifestUrl : OKManifestURLs \cup {None},
     metadataEmbedded : {None, "mpd", "broken"},
     hlsMasterPlaylistUrl : OKManifestURLs \cup {None},
     rtmpUrl : {None, "r1"}, paymentInfo : BOOLEAN, contentId : {None}]

\* lines 291-295
OKDirectFormats(videos) ==
    [i \in 1..Len(videos) |->
        Fmt(videos[i].url, videos[i].name, -1, -1, -1, -1)]

\* lines 308-313
OKWithQuality(formats) ==
    [i \in 1..Len(formats) |->
        IF OKFmtType(formats[i].url) # None
        THEN [formats[i] EXCEPT !.quality = quality(OKFmtType(formats[i].url))]
        ELSE formats[i]]

\* a paid check that does not look at the format list
OKPaidWhateverFormats(formats, metadata) == metadata.paymentInfo

\* lines 328-331
OKPaid(formats, metadata) == formats = <<>> /\ metadata.paymentInfo

OKBlocked == "The author of this video has not been found or is blocked"

\* a retry that does not look at the mode of the url
OKRetryAnyMode(error, referrer, mode) ==
    error = OKBlocked /\ ~Truthy(referrer)

\* line 200: the condition of the retry with the referrer https://boosty.to
OKRetry(error, referrer, mode) ==
    error = OKBlocked /\ ~Truthy(referrer) /\ mode = "videoembed"

\* the player before the desktop page is read
OKNoPlayer == [isExternalPlayer |-> FALSE, url |-> None, flashvars |-> FALSE]

\* the data-options of the page
OKPlayers == [isExternalPlayer : BOOLEAN, url : {None, "https://ext"},
              flashvars : BOOLEAN]

\* line 212
OKExternal(player) == player.isExternalPlayer /\ Truthy(player.url)

OKIdle ==
    /\ ok_pc = "idle"
    /\ ok_mode = "video"
    /\ ok_referrer = None
    /\ ok_player = OKNoPlayer
    /\ ok_metadata = OKNoMetadata
    /\ ok_formats = <<>>
    /\ ok_desktop_e = NoError
    /\ ok_raised = NoError
    /\ ok_result = None
    /\ ok_pages = 0
    /\ ok_mobile_pages = 0
    /\ ok_fetches = [u \in OKManifestURLs |-> 0]

\* _real_extract is called with a video or videoembed url, smuggled with a
\* referrer or not
OKInit ==
    /\ ok_pc = "desktop"
    /\ ok_mode \in {"video", "videoembed"}
    /\ ok_referrer \in {None, "https://embedder"}
    /\ ok_player = OKNoPlayer
    /\ ok_metadata = OKNoMetadata
    /\ ok_formats = <<>>
    /\ ok_desktop_e = NoError
    /\ ok_raised = NoError
    /\ ok_result = None
    /\ ok_pages = 0
    /\ ok_mobile_pages = 0
    /\ ok_fetches = [u \in OKManifestURLs |-> 0]

\* the ExtractorError e leaves _extract_desktop: line 173 catches it
OKDesktopRaises(e) ==
    /\ ok_pc' = "mobile"
    /\ ok_desktop_e' = e
    /\ UNCHANGED ok_raised

\* an exception that is no ExtractorError leaves _real_extract
OKCrashes(e) ==
    /\ ok_pc' = "fail"
    /\ ok_raised' = e
    /\ UNCHANGED ok_desktop_e

\* lines 180-203: the desktop page and its error stub
OKDesktopPage ==
    /\ ok_pc = "desktop"
    /\ ok_pages' = ok_pages + 1
    /\ \/ /\ OKDesktopRaises(Error("ExtractorError:download", 1))
          /\ UNCHANGED ok_referrer
       \/ \E error \in {None, OKBlocked, "other"} :
             IF OKRetry(error, ok_referrer, ok_mode)
             THEN /\ ok_referrer' = "https://boosty.to"
                  /\ UNCHANGED <<ok_pc, ok_desktop_e, ok_raised>>
             ELSE IF error # None
             THEN /\ OKDesktopRaises(Error("ExtractorError:stub", 1))
                  /\ UNCHANGED ok_referrer
             ELSE /\ ok_pc' = "player"
                  /\ UNCHANGED <<ok_referrer, ok_desktop_e, ok_raised>>
    /\ UNCHANGED <<ok_player, ok_mode, ok_metadata, ok_formats, ok_result, ok_mobile_pages,
                   ok_fetches>>
    /\ UNCHANGED notOK

\* lines 205-213: the player options (the regex may not match); an external
\* player with a url is a redirect; line 215 needs player['flashvars']
OKPlayer ==
    /\ ok_pc = "player"
    /\ \/ /\ OKDesktopRaises(Error("ExtractorError:player", 1))
          /\ UNCHANGED <<ok_player, ok_result>>
       \/ \E player \in OKPlayers :
             /\ ok_player' = player
             /\ IF OKExternal(player)
                THEN /\ ok_pc' = "done"
                     /\ ok_result' = "url"
                     /\ UNCHANGED <<ok_desktop_e, ok_raised>>
                ELSE IF ~player.flashvars
                THEN OKCrashes(Error("KeyError", 1)) /\ UNCHANGED ok_result
                ELSE /\ ok_pc' = "metadata"
                     /\ UNCHANGED <<ok_result, ok_desktop_e, ok_raised>>
    /\ UNCHANGED <<ok_mode, ok_referrer, ok_metadata, ok_formats, ok_pages,
                   ok_mobile_pages, ok_fetches>>
    /\ UNCHANGED notOK

\* lines 215-287: the metadata, the info dict, the redirecting providers,
\* and the title that must be there
OKMetadata ==
    /\ ok_pc = "metadata"
    /\ \/ /\ OKDesktopRaises(Error("ExtractorError:metadata", 1))
          /\ UNCHANGED <<ok_metadata, ok_result>>
       \/ \E md \in OKMetadataSet :
             /\ ok_metadata' = md
             /\ IF md.provider = "UPLOADED_ODKL" /\ md.title = None
                THEN OKCrashes(Error("KeyError", 1)) /\ UNCHANGED ok_result
                ELSE IF md.provider \in OKRedirectProviders /\ md.contentId = None
                THEN OKCrashes(Error("KeyError", 1)) /\ UNCHANGED ok_result
                ELSE IF md.provider \in OKRedirectProviders
                THEN /\ ok_pc' = "done"
                     /\ ok_result' = "url_transparent"
                     /\ UNCHANGED <<ok_desktop_e, ok_raised>>
                ELSE IF md.title = None
                THEN OKCrashes(Error("AssertionError", 1)) /\ UNCHANGED ok_result
                ELSE /\ ok_pc' = "videos"
                     /\ UNCHANGED <<ok_result, ok_desktop_e, ok_raised>>
    /\ UNCHANGED <<ok_player, ok_mode, ok_referrer, ok_formats, ok_pages, ok_mobile_pages,
                   ok_fetches>>
    /\ UNCHANGED notOK

\* lines 291-295: the direct videos
OKDirectVideos ==
    /\ ok_pc = "videos"
    /\ ok_formats' = OKDirectFormats(ok_metadata.videos)
    /\ ok_pc' = "hls"
    /\ UNCHANGED <<ok_player, ok_mode, ok_referrer, ok_metadata, ok_desktop_e, ok_raised,
                   ok_result, ok_pages, ok_mobile_pages, ok_fetches>>
    /\ UNCHANGED notOK

\* lines 297-301: hlsManifestUrl, fetched with fatal=False
OKHlsManifest ==
    /\ ok_pc = "hls"
    /\ LET m3u8_url == ok_metadata.hlsManifestUrl
       IN  IF m3u8_url # None
           THEN /\ ok_fetches' = [ok_fetches EXCEPT ![m3u8_url] = @ + 1]
                /\ \E fs \in {<<>>, M3u8Formats(m3u8_url, "hls")} :
                      ok_formats' = ok_formats \o fs
           ELSE UNCHANGED <<ok_formats, ok_fetches>>
    /\ ok_pc' = "dash"
    /\ UNCHANGED <<ok_player, ok_mode, ok_referrer, ok_metadata, ok_desktop_e, ok_raised,
                   ok_result, ok_pages, ok_mobile_pages>>
    /\ UNCHANGED notOK

\* lines 303-313: the embedded DASH manifest (its XML may not parse), then
\* the quality of every format collected so far
OKDashAndQuality ==
    /\ ok_pc = "dash"
    /\ IF ok_metadata.metadataEmbedded = "broken"
       THEN OKCrashes(Error("ParseError", 1)) /\ UNCHANGED ok_formats
       ELSE /\ ok_formats' =
                  OKWithQuality(IF ok_metadata.metadataEmbedded # None
                                THEN ok_formats \o MpdFormats("mpd")
                                ELSE ok_formats)
            /\ ok_pc' = "live"
            /\ UNCHANGED <<ok_desktop_e, ok_raised>>
    /\ UNCHANGED <<ok_player, ok_mode, ok_referrer, ok_metadata, ok_result, ok_pages,
                   ok_mobile_pages, ok_fetches>>
    /\ UNCHANGED notOK

\* lines 315-326: hlsMasterPlaylistUrl, fetched with fatal=False, and rtmpUrl
OKLive ==
    /\ ok_pc = "live"
    /\ LET m3u8_url == ok_metadata.hlsMasterPlaylistUrl
           rtmp     == IF ok_metadata.rtmpUrl # None
                       THEN <<Fmt(ok_metadata.rtmpUrl, "rtmp", -1, -1, -1, -1)>>
                       ELSE <<>>
       IN  IF m3u8_url # None
           THEN /\ ok_fetches' = [ok_fetches EXCEPT ![m3u8_url] = @ + 1]
                /\ \E fs \in {<<>>, M3u8Formats(m3u8_url, "hls")} :
                      ok_formats' = ok_formats \o fs \o rtmp
           ELSE /\ ok_formats' = ok_formats \o rtmp
                /\ UNCHANGED ok_fetches
    /\ ok_pc' = "paid"
    /\ UNCHANGED <<ok_player, ok_mode, ok_referrer, ok_metadata, ok_desktop_e, ok_raised,
                   ok_result, ok_pages, ok_mobile_pages>>
    /\ UNCHANGED notOK

\* lines 328-336: raise_no_formats for a paid video, _sort_formats (an empty
\* list is NoFormatsFound), and the MediaResult
OKSortAndReturn ==
    /\ ok_pc = "paid"
    /\ IF OKPaid(ok_formats, ok_metadata)
       THEN /\ OKDesktopRaises(Error("ExtractorError:paid", 1))
            /\ UNCHANGED <<ok_formats, ok_result>>
       ELSE IF ok_formats = <<>>
       THEN /\ OKDesktopRaises(Error("ExtractorError:NoFormatsFound", 1))
            /\ UNCHANGED <<ok_formats, ok_result>>
       ELSE /\ ok_formats' = SortFormats(ok_formats)
            /\ ok_pc' = "done"
            /\ ok_result' = "info"
            /\ UNCHANGED <<ok_desktop_e, ok_raised>>
    /\ UNCHANGED <<ok_player, ok_mode, ok_referrer, ok_metadata, ok_pages, ok_mobile_pages,
                   ok_fetches>>
    /\ UNCHANGED notOK

\* lines 341-352: what _extract_mobile raises: the download, the error stub
\* of the mobile page, the data-video attribute not found or not JSON
OKMobileErrors ==
    {Error("ExtractorError:download", 2), Error("ExtractorError:stub", 2),
     Error("ExtractorError:json data", 2)}

\* a chain that surfaces the error of the path tried last
OKSurfacedLast(desktop_e, mobile_e) == mobile_e

\* lines 176-178: except ExtractorError: raise e
OKSurfaced(desktop_e, mobile_e) == desktop_e

\* lines 174-178 and 338-365: the mobile page; when it raises ExtractorError
\* too, the desktop error e is raised
OKMobile ==
    /\ ok_pc = "mobile"
    /\ ok_mobile_pages' = ok_mobile_pages + 1
    /\ \/ /\ ok_pc' = "done"
          /\ ok_result' = "mobile"
          /\ ok_formats' = <<Fmt("mobile_src", "mobile", -1, -1, -1, -1)>>
          /\ UNCHANGED ok_raised
       \/ /\ ok_pc' = "fail"
          /\ \E mobile_e \in OKMobileErrors :
                ok_raised' = OKSurfaced(ok_desktop_e, mobile_e)
          /\ UNCHANGED <<ok_result, ok_formats>>
    /\ UNCHANGED <<ok_player, ok_mode, ok_referrer, ok_metadata, ok_desktop_e, ok_pages,
                   ok_fetches>>
    /\ UNCHANGED notOK

OKNext ==
    \/ OKDesktopPage
    \/ OKPlayer
    \/ OKMetadata
    \/ OKDirectVideos
    \/ OKHlsManifest
    \/ OKDashAndQuality
    \/ OKLive
    \/ OKSortAndReturn
    \/ OKMobile

-----------------------------------------------------------------------------
(* Zattoo: ZattooPlatformBaseIE._real_initialize, _login, _extract_formats, *)
(* the four resolution paths and ZattooIE._real_extract                    *)

\* line 168: for stream_type in ('dash', 'hls7')
ZTStreamTypes == <<"dash", "hls7">>

\* line 191: join_nonempty: the values that are not empty, joined by '-'
RECURSIVE join_nonempty(_)
join_nonempty(values) ==
    IF values = <<>> THEN ""
    ELSE LET rest == join_nonempty(Tail(values))
         IN  IF ~Truthy(values[1]) THEN rest
             ELSE IF rest = "" THEN values[1]
             ELSE values[1] \o "-" \o rest

\* an entry of watch_urls: two urls of one maxrate and audio channel, one
\* without either, one whose url is no url, and one that is no dict
ZTWatchEntries ==
    [is_dict : {TRUE}, url : {"w1", "w2"}, maxrate : {"5000"},
     audio_channel : {"A"}]
    \cup {[is_dict |-> TRUE, url |-> "w2", maxrate |-> None,
           audio_channel |-> None],
          [is_dict |-> TRUE, url |-> "bogus", maxrate |-> "5000",
           audio_channel |-> None],
          [is_dict |-> FALSE, url |-> None, maxrate |-> None,
           audio_channel |-> None]}

ZTValidURLs == {"w1", "w2"}

\* a url check that lets every value through
ZTUrlAsIs(v) == v

\* line 186: url_or_none(watch.get('url'))
ZTUrlOrNone(v) == IF v \in ZTValidURLs THEN v ELSE None

\* line 190
ZTPreference(audio_channel) == IF audio_channel = "A" THEN 1 ELSE -1

\* lines 192-207: the manifest of watch_url parsed by the parser of the
\* stream type, ids prefixed with format_id
ZTManifestFormats(stream_type, watch_url, format_id) ==
    IF stream_type = "dash"
    THEN <<Fmt(watch_url \o "/v", format_id \o "-v", -1, -1, -1, 700)>>
    ELSE <<Fmt(watch_url \o "/500", format_id \o "-500", -1, -1, -1, 500)>>

ZTManifestSubtitles(stream_type, watch_url) ==
    IF stream_type = "dash" THEN EmptySubtitles
    ELSE [EmptySubtitles EXCEPT !["en"] = <<[url |-> watch_url \o "/en.vtt",
                                            ext |-> "vtt"]>>]

\* lines 210-211: this_format['quality'] = preference
ZTWithQuality(this_formats, preference) ==
    [i \in 1..Len(this_formats) |-> [this_formats[i] EXCEPT !.quality = preference]]

\* line 30: if not username or not password
ZTMissingUsername(login_info) == ~Truthy(login_info[1])
ZTMissingLogin(login_info) ==
    ~Truthy(login_info[1]) \/ ~Truthy(login_info[2])

\* no account/login request was made
ZTNoLoginResponse == [status |-> None, power_guide_hash |-> None]

\* the answers to the account/login request: an HTTP status, or no HTTP
\* answer at all, and for a 200 the data['session']['power_guide_hash'] read
\* at line 53 (None: the key is not there)
ZTLoginResponses ==
    [status : {"200"}, power_guide_hash : {"hash", None}]
    \cup [status : {"400", "403", "500", "no_response"}, power_guide_hash : {None}]

\* lines 46-51: an HTTPError 400 becomes 'Unable to login: incorrect username
\* and/or password'; here every failed request is reported that way
ZTLoginErrorAlwaysCredentials(response) ==
    IF response.status # "200" THEN Error("AuthenticationFailed", 3)
    ELSE IF response.power_guide_hash = None THEN Error("KeyError", 3)
    ELSE NoError

\* a login that takes every answer for a success
ZTLoginNeverFails(response) == NoError

\* lines 35-53: what _login raises for an answer; `raise` at line 51 lets the
\* caught error through as it is
ZTLoginError(response) ==
    IF response.status = "400" THEN Error("AuthenticationFailed", 3)
    ELSE IF response.status # "200" THEN Error("TransportError", 3)
    ELSE IF response.power_guide_hash = None THEN Error("KeyError", 3)
    ELSE NoError

ZTIdle ==
    /\ zt_pc = "idle"
    /\ zt_login_info = <<None, None>>
    /\ zt_power_guide_hash = None
    /\ zt_login_response = ZTNoLoginResponse
    /\ zt_requests = <<>>
    /\ zt_kind = None
    /\ zt_stream = 1
    /\ zt_wn = 0
    /\ zt_widx = 1
    /\ zt_formats = <<>>
    /\ zt_subtitles = EmptySubtitles
    /\ zt_result = {}
    /\ zt_raised = NoError

\* the extractor is constructed: _power_guide_hash = None (line 23)
ZTInit ==
    /\ zt_pc = "token"
    /\ zt_login_info \in {None, "", "user"} \X {None, "secret"}
    /\ zt_power_guide_hash = None
    /\ zt_login_response = ZTNoLoginResponse
    /\ zt_requests = <<>>
    /\ zt_kind = None
    /\ zt_stream = 1
    /\ zt_wn = 0
    /\ zt_widx = 1
    /\ zt_formats = <<>>
    /\ zt_subtitles = EmptySubtitles
    /\ zt_result = {}
    /\ zt_raised = NoError

ZTResolutionUnchanged ==
    UNCHANGED <<zt_kind, zt_stream, zt_wn, zt_widx, zt_formats, zt_subtitles,
                zt_result>>

\* lines 56-57: token.json
ZTToken ==
    /\ zt_pc = "token"
    /\ zt_requests' = Append(zt_requests, "token")
    /\ \/ zt_pc' = "hello" /\ UNCHANGED zt_raised
       \/ zt_pc' = "fail" /\ zt_raised' = Error("TransportError", 1)
       \/ zt_pc' = "fail" /\ zt_raised' = Error("KeyError", 1)
    /\ UNCHANGED <<zt_login_info, zt_power_guide_hash, zt_login_response>>
    /\ ZTResolutionUnchanged
    /\ UNCHANGED notZT

\* lines 60-68: session/hello
ZTHello ==
    /\ zt_pc = "hello"
    /\ zt_requests' = Append(zt_requests, "hello")
    /\ \/ zt_pc' = "login" /\ UNCHANGED zt_raised
       \/ zt_pc' = "fail" /\ zt_raised' = Error("TransportError", 2)
    /\ UNCHANGED <<zt_login_info, zt_power_guide_hash, zt_login_response>>
    /\ ZTResolutionUnchanged
    /\ UNCHANGED notZT

\* lines 70 and 28-33: _login is entered; raise_login_required
ZTLoginCheck ==
    /\ zt_pc = "login"
    /\ IF ZTMissingLogin(zt_login_info)
       THEN zt_pc' = "fail" /\ zt_raised' = Error("LoginRequired", 3)
       ELSE zt_pc' = "login_request" /\ UNCHANGED zt_raised
    /\ UNCHANGED <<zt_login_info, zt_power_guide_hash, zt_login_response,
                   zt_requests>>
    /\ ZTResolutionUnchanged
    /\ UNCHANGED notZT

\* lines 35-53: account/login; the answer is drawn when the request is made
ZTLoginRequest ==
    /\ zt_pc = "login_request"
    /\ zt_requests' = Append(zt_requests, "login")
    /\ \E response \in ZTLoginResponses :
          /\ zt_login_response' = response
          /\ zt_raised' = ZTLoginError(response)
          /\ IF ZTLoginError(response) = NoError
             THEN /\ zt_pc' = "ready"
                  /\ zt_power_guide_hash' = response.power_guide_hash
             ELSE /\ zt_pc' = "fail"
                  /\ UNCHANGED zt_power_guide_hash
    /\ UNCHANGED zt_login_info
    /\ ZTResolutionUnchanged
    /\ UNCHANGED notZT

\* lines 312-325: the branch the url selects
ZTRealExtract ==
    /\ zt_pc = "ready"
    /\ \/ /\ \E k \in {"record", "ondemand", "video", "live"} : zt_kind' = k
          /\ zt_pc' = "info"
          /\ UNCHANGED zt_raised
       \/ /\ zt_pc' = "fail"
          /\ zt_raised' = Error("ExtractorError", 4)
          /\ UNCHANGED zt_kind
    /\ UNCHANGED <<zt_login_info, zt_power_guide_hash, zt_login_response,
                   zt_requests, zt_stream,
                   zt_wn, zt_widx, zt_formats, zt_subtitles, zt_result>>
    /\ UNCHANGED notZT

\* lines 72-145 as called at 217, 222, 233-234 and 239: the requests that
\* give cid and info_dict
ZTInfo ==
    /\ zt_pc = "info"
    /\ \/ zt_pc' = "stream" /\ UNCHANGED zt_raised
       \/ zt_pc' = "fail" /\ zt_raised' = Error("ExtractorError", 5)
    /\ UNCHANGED <<zt_login_info, zt_power_guide_hash, zt_login_response,
                   zt_requests, zt_kind,
                   zt_stream, zt_wn, zt_widx, zt_formats, zt_subtitles, zt_result>>
    /\ UNCHANGED notZT

\* lines 168-181: the watch request of one stream type (fatal=False); the
\* entries of watch_urls are read once each, by their own iteration, and
\* are drawn there
ZTStream ==
    /\ zt_pc = "stream"
    /\ zt_stream <= Len(ZTStreamTypes)
    /\ \/ /\ zt_stream' = zt_stream + 1
          /\ UNCHANGED <<zt_pc, zt_wn, zt_widx>>
       \/ /\ \E n \in 1..MaxWatch : zt_wn' = n
          /\ zt_widx' = 1
          /\ zt_pc' = "watch"
          /\ UNCHANGED zt_stream
    /\ UNCHANGED <<zt_login_info, zt_power_guide_hash, zt_login_response,
                   zt_requests, zt_kind,
                   zt_formats, zt_subtitles, zt_result, zt_raised>>
    /\ UNCHANGED notZT

\* lines 183-212: one watch entry
ZTWatch ==
    /\ zt_pc = "watch"
    /\ zt_widx <= zt_wn
    /\ \E watch \in ZTWatchEntries :
          LET stream_type   == ZTStreamTypes[zt_stream]
              watch_url     == ZTUrlOrNone(watch.url)
              audio_channel == watch.audio_channel
              format_id     == join_nonempty(<<stream_type, watch.maxrate,
                                               audio_channel>>)
          IN  IF ~watch.is_dict \/ ~Truthy(watch_url)
              THEN UNCHANGED <<zt_formats, zt_subtitles>>
              ELSE \/ UNCHANGED <<zt_formats, zt_subtitles>>
                   \/ /\ zt_formats' = zt_formats \o
                            ZTWithQuality(
                                ZTManifestFormats(stream_type, watch_url, format_id),
                                ZTPreference(audio_channel))
                      /\ zt_subtitles' = MergeSubtitles(
                            zt_subtitles, ZTManifestSubtitles(stream_type, watch_url))
    /\ IF zt_widx = zt_wn
       THEN zt_pc' = "stream" /\ zt_stream' = zt_stream + 1 /\ zt_widx' = 1
       ELSE zt_widx' = zt_widx + 1 /\ UNCHANGED <<zt_pc, zt_stream>>
    /\ UNCHANGED <<zt_login_info, zt_power_guide_hash, zt_login_response,
                   zt_requests, zt_kind,
                   zt_wn, zt_result, zt_raised>>
    /\ UNCHANGED notZT

\* lines 213-214: self._sort_formats(formats); an empty list is
\* NoFormatsFound
ZTSort ==
    /\ zt_pc = "stream"
    /\ zt_stream > Len(ZTStreamTypes)
    /\ IF zt_formats = <<>>
       THEN /\ zt_pc' = "fail"
            /\ zt_raised' = Error("NoFormatsFound", 6)
            /\ UNCHANGED zt_formats
       ELSE /\ zt_pc' = "return"
            /\ zt_formats' = SortFormats(zt_formats)
            /\ UNCHANGED zt_raised
    /\ UNCHANGED <<zt_login_info, zt_power_guide_hash, zt_login_response,
                   zt_requests, zt_kind,
                   zt_stream, zt_wn, zt_widx, zt_subtitles, zt_result>>
    /\ UNCHANGED notZT

\* a return that forgets the session: the write no resolution path makes
ZTReturnClearingSession ==
    /\ zt_pc = "return"
    /\ zt_result' = IF zt_kind = "live" THEN {"format", "subtitles"}
                    ELSE {"formats", "subtitles"}
    /\ zt_pc' = "done"
    /\ zt_power_guide_hash' = None
    /\ UNCHANGED <<zt_login_info, zt_login_response, zt_requests, zt_kind,
                   zt_stream, zt_wn, zt_widx, zt_formats, zt_subtitles, zt_raised>>
    /\ UNCHANGED notZT

\* lines 216-245: the MediaResult of the path taken
ZTReturn ==
    /\ zt_pc = "return"
    /\ zt_result' = IF zt_kind = "live" THEN {"format", "subtitles"}
                    ELSE {"formats", "subtitles"}
    /\ zt_pc' = "done"
    /\ UNCHANGED <<zt_login_info, zt_power_guide_hash, zt_login_response,
                   zt_requests, zt_kind,
                   zt_stream, zt_wn, zt_widx, zt_formats, zt_subtitles, zt_raised>>
    /\ UNCHANGED notZT

\* the instance is used for one more url: _real_initialize has run and is
\* not run again, _real_extract starts over with the session state as it is
ZTNextResolution ==
    /\ \/ zt_pc = "done"
       \/ zt_pc = "fail" /\ zt_raised.at >= 4
    /\ zt_pc' = "ready"
    /\ zt_kind' = None
    /\ zt_stream' = 1
    /\ zt_wn' = 0
    /\ zt_widx' = 1
    /\ zt_formats' = <<>>
    /\ zt_subtitles' = EmptySubtitles
    /\ zt_result' = {}
    /\ zt_raised' = NoError
    /\ UNCHANGED <<zt_login_info, zt_power_guide_hash, zt_login_response,
                   zt_requests>>
    /\ UNCHANGED notZT

ZTNext ==
    \/ ZTToken
    \/ ZTHello
    \/ ZTLoginCheck
    \/ ZTLoginRequest
    \/ ZTRealExtract
    \/ ZTInfo
    \/ ZTStream
    \/ ZTWatch
    \/ ZTSort
    \/ ZTReturn
    \/ ZTNextResolution

-----------------------------------------------------------------------------
(* RequestDirector: dispatch over the registered handlers *)

\* line 12: the handlers registered by default
REQUEST_HANDLERS == <<"UrllibRH">>

RDSchemes == {"http", "ftp"}

\* a registered handler: the schemes its capability predicate accepts and
\* whether its execution of the request fails
RDHandlers == [supports : SUBSET RDSchemes, fails : BOOLEAN]

\* the capability predicate of a handler applied to a request
RDMatches(handler, request) == request.scheme \in handler.supports

\* a director that selects the last handler whose predicate matches
RDLastMatch(handlers, request) ==
    LET matching == {i \in 1..Len(handlers) : RDMatches(handlers[i], request)}
    IN  IF matching = {} THEN 0
        ELSE CHOOSE i \in matching : \A j \in matching : j <= i

\* the Director selects the first handler whose predicate matches; 0 when
\* no predicate matches
RDFirstMatch(handlers, request) ==
    LET matching == {i \in 1..Len(handlers) : RDMatches(handlers[i], request)}
    IN  IF matching = {} THEN 0
        ELSE CHOOSE i \in matching : \A j \in matching : i <= j

RDNoOutcome == [kind |-> None, by |-> 0]

RDIdle ==
    /\ rd_pc = "idle"
    /\ rd_handlers = <<>>
    /\ rd_request = [scheme |-> None]
    /\ rd_chosen = 0
    /\ rd_executed = <<>>
    /\ rd_outcome = RDNoOutcome

\* a director over the default handlers and the handlers registered after
\* them is given a request
RDInit ==
    /\ rd_pc = "select"
    /\ rd_handlers \in {h \in SeqsUpTo(RDHandlers, MaxHandlers) :
                            Len(h) >= Len(REQUEST_HANDLERS)}
    /\ rd_request \in [scheme : RDSchemes]
    /\ rd_chosen = 0
    /\ rd_executed = <<>>
    /\ rd_outcome = RDNoOutcome

\* dispatch: the handler is selected; TransportError when none matches
RDSelect ==
    /\ rd_pc = "select"
    /\ rd_chosen' = RDFirstMatch(rd_handlers, rd_request)
    /\ IF RDFirstMatch(rd_handlers, rd_request) = 0
       THEN /\ rd_pc' = "fail"
            /\ rd_outcome' = [kind |-> "TransportError", by |-> 0]
       ELSE /\ rd_pc' = "execute"
            /\ UNCHANGED rd_outcome
    /\ UNCHANGED <<rd_handlers, rd_request, rd_executed>>
    /\ UNCHANGED notRD

\* dispatch: the selected handler executes the request and its single
\* terminal outcome is the outcome of dispatch
RDExecute ==
    /\ rd_pc = "execute"
    /\ rd_executed' = Append(rd_executed, rd_chosen)
    /\ IF rd_handlers[rd_chosen].fails
       THEN /\ rd_pc' = "fail"
            /\ rd_outcome' = [kind |-> "TransportError", by |-> rd_chosen]
       ELSE /\ rd_pc' = "done"
            /\ rd_outcome' = [kind |-> "Response", by |-> rd_chosen]
    /\ UNCHANGED <<rd_handlers, rd_request, rd_chosen>>
    /\ UNCHANGED notRD

RDNext ==
    \/ RDSelect
    \/ RDExecute

-----------------------------------------------------------------------------
(* FormatRanker: _sort_formats applied to an aggregated list *)

\* formats as cbs.py and zattoo.py hand them over: some with an explicit
\* preference, a language match or a quality, two pairs with all keys equal
RKFormats ==
    { Fmt("a", "pref", 1, -1, -1, -1),
      Fmt("a", "lang-q", -1, 10, 1, -1),
      Fmt("a", "lang", -1, 10, -1, -1),
      Fmt("b", "lang", -1, 10, -1, -1),
      Fmt("a", "q", -1, -1, 1, -1),
      Fmt("b", "q", -1, -1, 1, -1) }

\* the lists that hold the elements of s in another order
Reorderings(s) ==
    { [i \in 1..Len(s) |-> s[f[i]]] :
        f \in {g \in [1..Len(s) -> 1..Len(s)] :
                  \A i, j \in 1..Len(s) : g[i] = g[j] => i = j} }

RKIdle ==
    /\ rk_pc = "idle"
    /\ rk_formats = <<>>
    /\ rk_reordered = <<>>
    /\ rk_ranked = <<>>
    /\ rk_reranked = <<>>

RKInit ==
    /\ rk_pc = "aggregated"
    /\ rk_formats \in SeqsUpTo(RKFormats, MaxFormats)
    /\ rk_reordered \in Reorderings(rk_formats)
    /\ rk_ranked = <<>>
    /\ rk_reranked = <<>>

\* self._sort_formats(formats) on either list
RKSort ==
    /\ rk_pc = "aggregated"
    /\ rk_ranked' = SortFormats(rk_formats)
    /\ rk_reranked' = SortFormats(rk_reordered)
    /\ rk_pc' = "ranked"
    /\ UNCHANGED <<rk_formats, rk_reordered>>
    /\ UNCHANGED notRK

RKNext == RKSort

-----------------------------------------------------------------------------
(* Subtitle lists: CBSBaseIE._parse_smil_subtitles, RTPIE._real_extract *)

\* cbs.py line 20: the caption parameters and the ext given to each
CBSCaptionParams ==
    << <<"sMPTE-TTCCURL", "tt">>, <<"ClosedCaptionURL", "ttml">>,
       <<"webVTTCaptionURL", "vtt">> >>

CBSCaptionNames == {CBSCaptionParams[i][1] : i \in 1..Len(CBSCaptionParams)}

\* the value of a <param>: None when the SMIL has no such param
CBSCaptionValues == {None, "", "s1", "s2"}

\* cbs.py lines 19-29, from the k-th caption parameter on
RECURSIVE ParseSmilSubtitlesFrom(_, _, _, _)
ParseSmilSubtitlesFrom(k, params, subtitles_lang, subtitles) ==
    IF k > Len(CBSCaptionParams) THEN subtitles
    ELSE LET cc_url == params[CBSCaptionParams[k][1]]
             ext    == CBSCaptionParams[k][2]
         IN  ParseSmilSubtitlesFrom(k + 1, params, subtitles_lang,
                 IF Truthy(cc_url)
                 THEN [subtitles EXCEPT ![subtitles_lang] =
                          Append(@, [ext |-> ext, url |-> cc_url])]
                 ELSE subtitles)

\* cbs.py lines 18-29: _parse_smil_subtitles
ParseSmilSubtitles(params, subtitles_lang) ==
    ParseSmilSubtitlesFrom(1, params, subtitles_lang, EmptySubtitles)

\* an entry of vtt: (lcode, lname, url)
RTPVttEntries == Langs \X {"name"} \X {"t1", "t2"}

\* config.get('vtt'): None when the config has no vtt
RTPNoVtt == [present |-> FALSE, entries |-> <<>>]

RTPVtts ==
    {RTPNoVtt}
    \cup [present : {TRUE}, entries : SeqsUpTo(RTPVttEntries, MaxVtt)]

\* rtp.py lines 112-116: the loop over the entries
RECURSIVE RTPAppendAll(_)
RTPAppendAll(entries) ==
    IF entries = <<>> THEN EmptySubtitles
    ELSE LET front == RTPAppendAll(SubSeq(entries, 1, Len(entries) - 1))
             e     == entries[Len(entries)]
         IN  [front EXCEPT ![e[1]] = Append(@, [name |-> e[2], url |-> e[3]])]

\* rtp.py lines 108-116
RTPSubtitles(vtt) ==
    IF vtt.present THEN RTPAppendAll(vtt.entries) ELSE EmptySubtitles

SBNoParams == [k \in CBSCaptionNames |-> None]

SBIdle ==
    /\ sb_pc = "idle"
    /\ sb_params = SBNoParams
    /\ sb_vtt = RTPNoVtt
    /\ sb_subtitles = EmptySubtitles

\* a SMIL document is handed to _parse_smil_subtitles, or an RTP config to
\* the subtitle loop of RTPIE._real_extract
SBInit ==
    /\ sb_subtitles = EmptySubtitles
    /\ \/ /\ sb_pc = "cbs"
          /\ sb_params \in [CBSCaptionNames -> CBSCaptionValues]
          /\ sb_vtt = RTPNoVtt
       \/ /\ sb_pc = "rtp"
          /\ sb_params = SBNoParams
          /\ sb_vtt \in RTPVtts

SBParseSmil ==
    /\ sb_pc = "cbs"
    /\ sb_subtitles' = ParseSmilSubtitles(sb_params, "en")
    /\ sb_pc' = "done"
    /\ UNCHANGED <<sb_params, sb_vtt>>
    /\ UNCHANGED notSB

SBRtp ==
    /\ sb_pc = "rtp"
    /\ sb_subtitles' = RTPSubtitles(sb_vtt)
    /\ sb_pc' = "done"
    /\ UNCHANGED <<sb_params, sb_vtt>>
    /\ UNCHANGED notSB

SBNext ==
    \/ SBParseSmil
    \/ SBRtp

-----------------------------------------------------------------------------
(* Paramount+ series: ParamountPlusSeriesIE._real_extract, _entries *)

\* an episode of show_json['result']['data']
PPEpisodes == [url : {"/shows/a/video/1/", "/shows/a/video/2/"},
               content_id : {"c1", "c2"}]

\* lines 157-159: self.url_result(..., ie=CBSIE.ie_key(), video_id=...)
url_result(url, ie, video_id) ==
    [type |-> "url", url |-> url, ie_key |-> ie, id |-> video_id]

PPEntry(episode) ==
    url_result("https://www.paramountplus.com" \o episode.url, "CBS",
               episode.content_id)

PPIdle ==
    /\ pp_pc = "idle"
    /\ pp_data = <<>>
    /\ pp_requests = 0
    /\ pp_asked = 0
    /\ pp_entries = <<>>

PPInit ==
    /\ pp_pc = "new"
    /\ pp_data = <<>>
    /\ pp_requests = 0
    /\ pp_asked = 0
    /\ pp_entries = <<>>

\* a _real_extract that downloads the listing before it returns
PPRealExtractEager ==
    /\ pp_pc = "new"
    /\ pp_requests' = pp_requests + 1
    /\ \E data \in SeqsUpTo(PPEpisodes, MaxEpisodes) : pp_data' = data
    /\ pp_pc' = "playlist"
    /\ UNCHANGED <<pp_asked, pp_entries>>
    /\ UNCHANGED notPP

\* lines 161-163: calling the generator function _entries runs none of its
\* body; the playlist holds the generator
PPRealExtract ==
    /\ pp_pc = "new"
    /\ pp_pc' = "playlist"
    /\ UNCHANGED <<pp_data, pp_requests, pp_asked, pp_entries>>
    /\ UNCHANGED notPP

\* lines 154-159: the first next() runs the body up to the first yield: the
\* listing is downloaded (it may raise), and without success or with no
\* episode the generator ends
PPFirstEntry ==
    /\ pp_pc = "playlist"
    /\ pp_asked' = pp_asked + 1
    /\ pp_requests' = pp_requests + 1
    /\ \/ /\ pp_pc' = "fail"
          /\ UNCHANGED <<pp_data, pp_entries>>
       \/ /\ pp_pc' = "exhausted"
          /\ UNCHANGED <<pp_data, pp_entries>>
       \/ \E data \in SeqsUpTo(PPEpisodes, MaxEpisodes) :
             /\ pp_data' = data
             /\ IF data = <<>>
                THEN pp_pc' = "exhausted" /\ UNCHANGED pp_entries
                ELSE /\ pp_pc' = "yielded"
                     /\ pp_entries' = <<PPEntry(data[1])>>
    /\ UNCHANGED notPP

\* lines 156-159: a further next() resumes the loop over the episodes
PPNextEntry ==
    /\ pp_pc = "yielded"
    /\ pp_asked' = pp_asked + 1
    /\ IF Len(pp_entries) < Len(pp_data)
       THEN /\ pp_entries' = Append(pp_entries, PPEntry(pp_data[Len(pp_entries) + 1]))
            /\ UNCHANGED pp_pc
       ELSE /\ pp_pc' = "exhausted"
            /\ UNCHANGED pp_entries
    /\ UNCHANGED <<pp_data, pp_requests>>
    /\ UNCHANGED notPP

\* the consumer stops: the generator is closed at its yield, or before it
\* started; no line of _entries handles GeneratorExit
PPStop ==
    /\ pp_pc \in {"playlist", "yielded"}
    /\ pp_pc' = "closed"
    /\ UNCHANGED <<pp_data, pp_requests, pp_asked, pp_entries>>
    /\ UNCHANGED notPP

\* next() on a generator that is closed, has ended or has raised runs no
\* line of _entries
PPNextAfterEnd ==
    /\ pp_pc \in {"closed", "exhausted", "fail"}
    /\ pp_asked <= MaxEpisodes
    /\ pp_asked' = pp_asked + 1
    /\ UNCHANGED <<pp_pc, pp_data, pp_requests, pp_entries>>
    /\ UNCHANGED notPP

PPNext ==
    \/ PPRealExtract
    \/ PPFirstEntry
    \/ PPNextEntry
    \/ PPStop
    \/ PPNextAfterEnd

-----------------------------------------------------------------------------
(* Podchaser: PodchaserIE._real_extract *)

\* lines 66 and 71-72: the page size of the listing
PODPageSize == 100

\* the totals the first listing request may report
PODTotals ==
    {k * PODPageSize + d : k \in 0..(MaxPages - 1), d \in {0, 1, PODPageSize - 1}}

\* len(curr_episodes): the server may send fewer or more than 'count'
PODPageLengths == {0, 1, PODPageSize - 1, PODPageSize, PODPageSize + 1}

\* line 66: range(total_episode_count // 100 + 1)
PODPages(total_episode_count) == total_episode_count \div PODPageSize + 1

\* a test that takes every page
PODAcceptAlways(curr, have, total_episode_count) == TRUE

\* line 79
PODAccept(curr, have, total_episode_count) == curr + have <= total_episode_count

PODIdle ==
    /\ pod_pc = "idle"
    /\ pod_audio_id = FALSE
    /\ pod_total = 0
    /\ pod_i = 0
    /\ pod_episodes = 0
    /\ pod_requests = 0
    /\ pod_dropped = 0
    /\ pod_result = None
    /\ pod_raised = NoError

\* line 55: the url of an episode or of a podcast
PODInit ==
    /\ pod_pc = "start"
    /\ pod_audio_id \in BOOLEAN
    /\ pod_total = 0
    /\ pod_i = 0
    /\ pod_episodes = 0
    /\ pod_requests = 0
    /\ pod_dropped = 0
    /\ pod_result = None
    /\ pod_raised = NoError

PODFails(e) ==
    /\ pod_pc' = "fail"
    /\ pod_raised' = e

\* lines 56-57: the episode of an episode url
PODEpisode ==
    /\ pod_pc = "start"
    /\ pod_audio_id
    /\ \/ /\ pod_episodes' = 1
          /\ pod_pc' = "podcast"
          /\ UNCHANGED pod_raised
       \/ /\ PODFails(Error("ExtractorError", 57))
          /\ UNCHANGED pod_episodes
    /\ UNCHANGED <<pod_audio_id, pod_total, pod_i, pod_requests, pod_dropped,
                   pod_result>>
    /\ UNCHANGED notPOD

\* lines 59-65: the first listing request; without 'total' in the answer
\* line 66 divides None
PODTotal ==
    /\ pod_pc = "start"
    /\ ~pod_audio_id
    /\ \/ /\ \E t \in PODTotals : pod_total' = t
          /\ pod_pc' = "pages"
          /\ UNCHANGED pod_raised
       \/ /\ PODFails(Error("ExtractorError", 59))
          /\ UNCHANGED pod_total
       \/ /\ PODFails(Error("TypeError", 66))
          /\ UNCHANGED pod_total
    /\ UNCHANGED <<pod_audio_id, pod_i, pod_episodes, pod_requests, pod_dropped,
                   pod_result>>
    /\ UNCHANGED notPOD

\* lines 66-80: one iteration of the loop over the pages
PODPage ==
    /\ pod_pc = "pages"
    /\ pod_i < PODPages(pod_total)
    /\ pod_requests' = pod_requests + 1
    /\ \/ /\ \E curr \in PODPageLengths :
                IF PODAccept(curr, pod_episodes, pod_total)
                THEN /\ pod_episodes' = pod_episodes + curr
                     /\ UNCHANGED pod_dropped
                ELSE /\ pod_dropped' = pod_dropped + 1
                     /\ UNCHANGED pod_episodes
          /\ pod_i' = pod_i + 1
          /\ UNCHANGED <<pod_pc, pod_raised>>
       \/ /\ PODFails(Error("ExtractorError", 67))
          /\ UNCHANGED <<pod_i, pod_episodes, pod_dropped>>
    /\ UNCHANGED <<pod_audio_id, pod_total, pod_result>>
    /\ UNCHANGED notPOD

\* lines 66 and 82-84: the loop is over
PODLoopEnds ==
    /\ pod_pc = "pages"
    /\ pod_i >= PODPages(pod_total)
    /\ pod_pc' = "podcast"
    /\ UNCHANGED <<pod_audio_id, pod_total, pod_i, pod_episodes, pod_requests,
                   pod_dropped, pod_result, pod_raised>>
    /\ UNCHANGED notPOD

\* lines 82-105: the podcast document, the entries, and the result;
\* entries[0] of an empty list raises IndexError
PODReturn ==
    /\ pod_pc = "podcast"
    /\ \/ /\ PODFails(Error("ExtractorError", 83))
          /\ UNCHANGED pod_result
       \/ IF pod_episodes > 1
          THEN /\ pod_pc' = "done"
               /\ pod_result' = "playlist"
               /\ UNCHANGED pod_raised
          ELSE IF pod_episodes = 1
          THEN /\ pod_pc' = "done"
               /\ pod_result' = "single"
               /\ UNCHANGED pod_raised
          ELSE /\ PODFails(Error("IndexError", 105))
               /\ UNCHANGED pod_result
    /\ UNCHANGED <<pod_audio_id, pod_total, pod_i, pod_episodes, pod_requests,
                   pod_dropped>>
    /\ UNCHANGED notPOD

PODNext ==
    \/ PODEpisode
    \/ PODTotal
    \/ PODPage
    \/ PODLoopEnds
    \/ PODReturn

-----------------------------------------------------------------------------
(* Specifications: one resolution by one extractor *)

InitCBS == CBSInit /\ HDIdle /\ OKIdle /\ ZTIdle /\ RDIdle /\ RKIdle /\ SBIdle /\ PPIdle /\ PODIdle

SpecCBS == InitCBS /\ [][CBSNext]_vars

InitHiDive == HDInit /\ CBSIdle /\ OKIdle /\ ZTIdle /\ RDIdle /\ RKIdle /\ SBIdle /\ PPIdle /\ PODIdle

SpecHiDive == InitHiDive /\ [][HDNext]_vars

InitOK == OKInit /\ CBSIdle /\ HDIdle /\ ZTIdle /\ RDIdle /\ RKIdle /\ SBIdle /\ PPIdle /\ PODIdle

SpecOK == InitOK /\ [][OKNext]_vars

\* _real_extract runs on one thread and every call it makes returns or
\* raises: a step that can be taken is taken
SpecOKFair == InitOK /\ [][OKNext]_vars /\ WF_vars(OKNext)

InitZattoo == ZTInit /\ CBSIdle /\ HDIdle /\ OKIdle /\ RDIdle /\ RKIdle /\ SBIdle /\ PPIdle /\ PODIdle

SpecZattoo == InitZattoo /\ [][ZTNext]_vars

InitDirector == RDInit /\ CBSIdle /\ HDIdle /\ OKIdle /\ ZTIdle /\ RKIdle /\ SBIdle /\ PPIdle /\ PODIdle

SpecDirector == InitDirector /\ [][RDNext]_vars

InitRanker == RKInit /\ CBSIdle /\ HDIdle /\ OKIdle /\ ZTIdle /\ RDIdle /\ SBIdle /\ PPIdle /\ PODIdle

SpecRanker == InitRanker /\ [][RKNext]_vars

InitSubtitles ==
    SBInit /\ CBSIdle /\ HDIdle /\ OKIdle /\ ZTIdle /\ RDIdle /\ RKIdle /\ PPIdle /\ PODIdle

SpecSubtitles == InitSubtitles /\ [][SBNext]_vars

InitParamount ==
    PPInit /\ CBSIdle /\ HDIdle /\ OKIdle /\ ZTIdle /\ RDIdle /\ RKIdle /\ SBIdle /\ PODIdle

SpecParamount == InitParamount /\ [][PPNext]_vars

InitPodchaser ==
    PODInit /\ CBSIdle /\ HDIdle /\ OKIdle /\ ZTIdle /\ RDIdle /\ RKIdle /\ SBIdle /\ PPIdle

SpecPodchaser == InitPodchaser /\ [][PODNext]_vars

\* one instance of either extractor that keeps session state
InitSession == InitZattoo \/ InitHiDive

SessionNext == ZTNext \/ HDNext

SpecSession == InitSession /\ [][SessionNext]_vars

-----------------------------------------------------------------------------
(* CBS: properties *)

CBSFailed == {i \in 1..Len(cbs_log) : ~cbs_log[i].ok}
CBSSurvived == {i \in 1..Len(cbs_log) : cbs_log[i].ok}

RECURSIVE CBSSurvivorFormats(_)
CBSSurvivorFormats(log) ==
    IF log = <<>> THEN <<>>
    ELSE CBSSurvivorFormats(SubSeq(log, 1, Len(log) - 1)) \o log[Len(log)].formats

Occurrences(f, fs) == Cardinality({i \in 1..Len(fs) : fs[i] = f})

\* C1: when the format list is non-empty after the loop, no asset-type error
\* leaves _extract_video_info, wherever and however often asset types failed.
C1_PartialSuccess ==
    (cbs_pc = "fail" /\ cbs_raised.kind = "asset") => cbs_formats = <<>>

C1_Witness ==
    /\ cbs_pc = "done"
    /\ Len(cbs_log) = 3
    /\ CBSFailed = {1, 3}
    /\ cbs_formats # <<>>

\* C2: when every processed asset type failed, the error raised is the one of
\* the asset type processed last, and it is raised after the whole loop.
C2_LastErrorRaised ==
    /\ (cbs_pc \notin {"init", "loop"} /\ cbs_log # <<>> /\ CBSSurvived = {})
          => /\ cbs_pc = "fail"
             /\ cbs_raised = Error("asset", cbs_log[Len(cbs_log)].at)
    /\ cbs_raised.kind = "asset" => cbs_idx > Len(cbs_items)

C2_Witness ==
    /\ cbs_pc = "fail"
    /\ Len(cbs_log) = 3
    /\ CBSSurvived = {}
    /\ cbs_raised = Error("asset", cbs_log[3].at)

\* C3 as stated: an asset-type error is never raised when some other asset
\* type's fetch-and-parse returned, even with zero formats.
C3_Original ==
    (cbs_pc = "fail" /\ cbs_raised.kind = "asset") => CBSSurvived = {}

\* C3 amended: an asset-type error is never raised when some other asset type
\* returned at least one format; asset types that returned zero formats do
\* not prevent it.
C3_NoFailureWhenSomeFormatReturned ==
    (cbs_pc = "fail" /\ cbs_raised.kind = "asset")
        => \A i \in CBSSurvived : cbs_log[i].formats = <<>>

C3_Witness ==
    /\ cbs_pc = "fail"
    /\ cbs_raised.kind = "asset"
    /\ CBSSurvived # {}

\* C4 as stated: the aggregated list is the union of the survivors' formats
\* deduplicated by url.
C4_Original ==
    cbs_pc \in {"rank", "meta", "done"}
        => /\ \A i, j \in 1..Len(cbs_formats) :
                 cbs_formats[i].url = cbs_formats[j].url => i = j
           /\ {f.url : f \in Range(cbs_formats)}
                 = {f.url : f \in Range(CBSSurvivorFormats(cbs_log))}

\* C4 amended: before ranking the aggregated list is the concatenation, in
\* discovery order, of the formats the surviving asset types returned, and
\* the returned list holds exactly those formats, each as often as it was
\* returned (no deduplication by url); it depends on the survivors only.
C4_ConcatenationOfSurvivors ==
    /\ cbs_pc = "rank" => cbs_formats = CBSSurvivorFormats(cbs_log)
    /\ cbs_pc \in {"meta", "done"}
          => /\ Len(cbs_formats) = Len(CBSSurvivorFormats(cbs_log))
             /\ \A f \in Range(cbs_formats) :
                   Occurrences(f, cbs_formats)
                      = Occurrences(f, CBSSurvivorFormats(cbs_log))

C4_Witness ==
    /\ cbs_pc = "done"
    /\ CBSFailed # {}
    /\ Cardinality(CBSSurvived) = 2
    /\ \E i, j \in 1..Len(cbs_formats) :
          i # j /\ cbs_formats[i].url = cbs_formats[j].url

-----------------------------------------------------------------------------
(* HiDive: properties *)

IsPrefix(s, t) == Len(s) <= Len(t) /\ SubSeq(t, 1, Len(s)) = s

HDInLoop == hd_pc \in {"loop", "m3u8"}

\* a setting _parse_one_setting cannot process
HDRestrictedOrMalformed(setting) ==
    \/ setting.restrictionReason \in {"RegionRestricted", "Premium"}
    \/ ~setting.has_renditions

\* C5: in one HiDive resolution every manifest url is handed to
\* _extract_m3u8_formats at most once, over all settings and renditions.
C5_ManifestFetchedAtMostOnce ==
    \A u \in HDManifestURLs : hd_fetches[u] <= 1

C5_Witness ==
    /\ hd_pc = "done"
    /\ \E u \in hd_repeated : hd_fetches[u] = 1

C9_RankedBeforeDone ==
    /\ hd_pc = "done" => hd_formats = SortFormats(hd_formats)
    /\ cbs_pc = "done" => cbs_formats = SortFormats(cbs_formats)
    /\ zt_pc = "done" => zt_formats = SortFormats(zt_formats)
    /\ (ok_pc = "done" /\ ok_result = "info")
          => ok_formats = SortFormats(ok_formats)

-----------------------------------------------------------------------------
(* Odnoklassniki: properties *)

UniqueFormatIds(formats) ==
    \A i, j \in 1..Len(formats) :
        formats[i].format_id = formats[j].format_id => i = j

\* C6: when hlsManifestUrl and hlsMasterPlaylistUrl hold the same url, the
\* desktop resolution fetches that url exactly once.
C6_IdenticalUrlFetchedOnce ==
    (/\ ok_pc = "done"
     /\ ok_result = "info"
     /\ ok_metadata.hlsManifestUrl # None
     /\ ok_metadata.hlsManifestUrl = ok_metadata.hlsMasterPlaylistUrl)
        => ok_fetches[ok_metadata.hlsManifestUrl] = 1

\* C7: no two formats of a MediaResult returned by Odnoklassniki or by
\* Zattoo carry the same format_id.
C7_UniqueFormatIds ==
    /\ ok_pc = "done" => UniqueFormatIds(ok_formats)
    /\ zt_pc = "done" => UniqueFormatIds(zt_formats)

-----------------------------------------------------------------------------
(* Zattoo: properties *)

ZTInitializeEnded == zt_pc \notin {"token", "hello", "login", "login_request"}

ZTCredentialMissing ==
    zt_login_info[1] \in {None, ""} \/ zt_login_info[2] \in {None, ""}

\* C10 as stated: with a username or password missing, _real_initialize ends
\* in LoginRequired and never dispatches the login request.
C10_Original ==
    (ZTCredentialMissing /\ ZTInitializeEnded)
        => /\ zt_pc = "fail"
           /\ zt_raised.kind = "LoginRequired"
           /\ "login" \notin Range(zt_requests)

\* C10 amended: with a username or password missing, _real_initialize never
\* dispatches the login request and never completes; it ends in LoginRequired
\* when the token and hello requests both succeeded, and in the error of the
\* token or hello request when that one failed; no request is repeated.
C10_LoginRequiredAfterSession ==
    ZTCredentialMissing
        => /\ "login" \notin Range(zt_requests)
           /\ zt_pc \in {"token", "hello", "login", "fail"}
           /\ zt_pc = "fail"
                 => \/ /\ zt_raised = Error("LoginRequired", 3)
                       /\ zt_requests = <<"token", "hello">>
                    \/ /\ zt_raised.kind \in {"TransportError", "KeyError"}
                       /\ zt_raised.at = Len(zt_requests)
                       /\ zt_requests \in {<<"token">>, <<"token", "hello">>}

C10_Witness ==
    /\ ZTCredentialMissing
    /\ zt_pc = "fail"
    /\ zt_raised.kind = "LoginRequired"
    /\ zt_requests = <<"token", "hello">>

\* C11: a login request answered with HTTP 400 ends _login in
\* AuthenticationFailed, a login request that failed in any other way ends it
\* in that transport error, and in both cases _power_guide_hash stays unset.
C11_LoginFailureReported ==
    "login" \in Range(zt_requests) =>
        /\ zt_login_response.status = "400"
              => /\ zt_pc = "fail"
                 /\ zt_raised = Error("AuthenticationFailed", 3)
                 /\ zt_power_guide_hash = None
        /\ zt_login_response.status \in {"403", "500", "no_response"}
              => /\ zt_pc = "fail"
                 /\ zt_raised = Error("TransportError", 3)
                 /\ zt_power_guide_hash = None

C11_Witness ==
    /\ zt_requests = <<"token", "hello", "login">>
    /\ zt_login_response.status = "400"
    /\ zt_raised = Error("AuthenticationFailed", 3)
    /\ zt_power_guide_hash = None

-----------------------------------------------------------------------------
(* Session state: properties *)

\* positions inside _real_initialize / _login
ZTInInitialize == zt_pc \in {"token", "hello", "login", "login_request"}

HDInInitialize == hd_pc = "new"

\* C12: the session state of an instance (_power_guide_hash,
\* _preferred_content_language) changes only in a step of _real_initialize /
\* _login; no step of a resolution changes it, however many resolutions the
\* instance runs.
C12_SessionWrittenOnlyInInitialize ==
    [][/\ ~ZTInInitialize => zt_power_guide_hash' = zt_power_guide_hash
       /\ ~HDInInitialize => hd_lang' = hd_lang]_vars

\* a resolution of an initialised instance has returned its MediaResult
C12_Witness ==
    /\ zt_pc = "done"
    /\ zt_power_guide_hash = "hash"
    /\ zt_formats # <<>>

-----------------------------------------------------------------------------
(* Odnoklassniki: the fallback chain *)

-----------------------------------------------------------------------------
(* RequestDirector: properties *)

RDEnded == rd_pc \in {"done", "fail"}

RDMatching ==
    {i \in 1..Len(rd_handlers) : RDMatches(rd_handlers[i], rd_request)}

\* C14: a dispatched request is executed by exactly one handler, the first
\* registered one whose predicate matches; when that handler fails no other
\* handler executes and dispatch ends in TransportError; when no predicate
\* matches no handler executes and dispatch ends in TransportError.
C14_ExactlyOneHandler ==
    /\ Len(rd_executed) <= 1
    /\ RDEnded =>
         IF RDMatching = {}
         THEN /\ rd_executed = <<>>
              /\ rd_pc = "fail"
              /\ rd_outcome.kind = "TransportError"
         ELSE LET first == CHOOSE i \in RDMatching : \A j \in RDMatching : i <= j
              IN  /\ rd_executed = <<first>>
                  /\ rd_outcome.by = first
                  /\ IF rd_handlers[first].fails
                     THEN rd_pc = "fail" /\ rd_outcome.kind = "TransportError"
                     ELSE rd_pc = "done" /\ rd_outcome.kind = "Response"

\* the first matching handler failed while a later handler matches too
C14_Witness ==
    /\ rd_pc = "fail"
    /\ rd_executed = <<2>>
    /\ Len(rd_handlers) = 3
    /\ RDMatching = {2, 3}
    /\ ~rd_handlers[3].fails

-----------------------------------------------------------------------------
(* HiDive: language preference *)

\* C15: every HiDive format whose rendition language is the preferred
\* content language carries language_preference 10 and every other one -1,
\* and the FormatRanker places each format in the preferred language before
\* each format in another language, whatever their bitrates.
C15_PreferredLanguageFirst ==
    /\ \A i \in 1..Len(hd_formats) :
          hd_formats[i].language_preference =
              IF hd_formats[i].language = hd_lang THEN 10 ELSE -1
    /\ LET ranked == SortFormats(hd_formats)
       IN  \A i, j \in 1..Len(ranked) :
              (ranked[i].language = hd_lang /\ ranked[j].language # hd_lang)
                  => i < j

\* the preferred language has the lower bitrate and was discovered last
C15_Witness ==
    /\ hd_pc = "done"
    /\ hd_lang = "en"
    /\ Len(hd_formats) = 2
    /\ hd_formats[1].language = "ja" /\ hd_formats[1].tbr = 2000
    /\ hd_formats[2].language = "en" /\ hd_formats[2].tbr = 1000
    /\ SortFormats(hd_formats)[1].language = "en"

-----------------------------------------------------------------------------
(* FormatRanker: properties *)

Keys(fs) == [i \in 1..Len(fs) |-> SortKey(fs[i])]

WithKey(fs, k) == SelectSeq(fs, LAMBDA f : SortKey(f) = k)

RKBestFirst(fs) ==
    \A i, j \in 1..Len(fs) : i < j => ~KeyLess(SortKey(fs[i]), SortKey(fs[j]))

\* C16: the ranker orders by the key (explicit preference, language match,
\* quality) and nothing else: the ranked list is a reordering of its input
\* with no format before a strictly better one, two lists that are
\* permutations of each other are ranked to the same sequence of keys, and
\* the formats of one key keep the order they had in the input.
C16_RankingStable ==
    rk_pc = "ranked" =>
        /\ rk_ranked \in Reorderings(rk_formats)
        /\ rk_reranked \in Reorderings(rk_reordered)
        /\ RKBestFirst(rk_ranked)
        /\ RKBestFirst(rk_reranked)
        /\ Keys(rk_ranked) = Keys(rk_reranked)
        /\ \A f \in RKFormats :
              /\ WithKey(rk_ranked, SortKey(f)) = WithKey(rk_formats, SortKey(f))
              /\ WithKey(rk_reranked, SortKey(f)) = WithKey(rk_reordered, SortKey(f))

\* two formats of equal key were discovered in either order, behind a
\* format that ranks above both
C16_Witness ==
    /\ rk_pc = "ranked"
    /\ rk_formats = <<Fmt("a", "q", -1, -1, 1, -1), Fmt("b", "q", -1, -1, 1, -1),
                      Fmt("a", "lang", -1, 10, -1, -1)>>
    /\ rk_reordered = <<Fmt("b", "q", -1, -1, 1, -1), Fmt("a", "q", -1, -1, 1, -1),
                        Fmt("a", "lang", -1, 10, -1, -1)>>
    /\ rk_ranked[1] = rk_reranked[1]
    /\ rk_ranked[2] = rk_reranked[3]

-----------------------------------------------------------------------------
(* Zattoo: the MediaResult *)

\* C17: the MediaResult of each of the four Zattoo resolution paths carries
\* the aggregated format list under the field formats.
C17_FormatsFieldPresent ==
    zt_pc = "done" => "formats" \in zt_result

-----------------------------------------------------------------------------
(* HiDive: subtitles *)

\* C18: no url occurs in two entries of the HiDive subtitle map, under one
\* language or under two, and every entry has a valid url.
C18_SubtitleUrlsUnique ==
    \A l1, l2 \in HDSubtitleLangs :
        \A i \in 1..Len(hd_subtitles[l1]) :
            /\ hd_subtitles[l1][i].url \in HDValidURLs
            /\ \A j \in 1..Len(hd_subtitles[l2]) :
                  hd_subtitles[l1][i].url = hd_subtitles[l2][j].url
                      => (l1 = l2 /\ i = j)

\* the settings held one url under two languages and it is listed once
C18_Witness ==
    /\ hd_pc = "done"
    /\ {<<"english", "c1">>, <<"japanese", "c1">>} \subseteq hd_offered
    /\ hd_subtitles["english"] = <<[url |-> "c1", name |-> "English"]>>
    /\ hd_subtitles["japanese"] = <<>>

\* C19: every caption file with a valid url and a language that a processed
\* setting held is in the subtitle map under its language.
C19_SubtitlesAreUnion ==
    hd_pc = "done" =>
        \A o \in hd_offered :
            \E i \in 1..Len(hd_subtitles[o[1]]) : hd_subtitles[o[1]][i].url = o[2]

-----------------------------------------------------------------------------
(* Subtitle lists: properties *)

\* C20: no per-language subtitle list built by _parse_smil_subtitles or by
\* the vtt loop of RTP holds two entries with the same url.
C20_NoDuplicateSubtitleUrl ==
    sb_pc = "done" =>
        \A l \in Langs :
            \A i, j \in 1..Len(sb_subtitles[l]) :
                sb_subtitles[l][i].url = sb_subtitles[l][j].url => i = j

-----------------------------------------------------------------------------
(* Paramount+ series: properties *)

\* C21: _real_extract of a series dispatches no request; the listing
\* request is dispatched once, by the step in which the consumer asks for
\* the first child; after the consumer has stopped no request is dispatched.
C21_LazyPlaylist ==
    /\ [](/\ pp_asked = 0 => pp_requests = 0
          /\ pp_requests <= 1
          /\ Len(pp_entries) <= pp_asked)
    /\ [][/\ pp_requests' # pp_requests => (pp_asked = 0 /\ pp_asked' = 1)
          /\ pp_pc = "closed" => pp_requests' = pp_requests]_vars

\* the consumer stopped after the first of three children and asked again
C21_Witness ==
    /\ pp_pc = "closed"
    /\ pp_requests = 1
    /\ Len(pp_entries) = 1
    /\ Len(pp_data) = 3
    /\ pp_asked = 2

-----------------------------------------------------------------------------
(* Odnoklassniki: paid content, fallback order, retry, redirects *)

OKPaidError == Error("ExtractorError:paid", 1)

\* every format source of the metadata has been gone through and left
\* nothing
OKSourcesExhausted ==
    /\ ok_pc = "paid"
    /\ ok_formats = <<>>
    /\ ok_metadata.videos = <<>>
    /\ ok_metadata.rtmpUrl = None
    /\ \A u \in OKManifestURLs :
          u \in {ok_metadata.hlsManifestUrl, ok_metadata.hlsMasterPlaylistUrl}
              => ok_fetches[u] >= 1

\* C22: the desktop path raises the paid-content error exactly in the step
\* after the last format source, when the format list is empty and the
\* metadata carries payment info; with a format collected it is not raised.
C22_PaidOnlyWhenEmpty ==
    [][(ok_desktop_e' = OKPaidError /\ ok_desktop_e # OKPaidError)
          <=> (OKSourcesExhausted /\ ok_metadata.paymentInfo)]_vars

\* a paid video whose HLS manifest was fetched and gave nothing
C22_Witness ==
    /\ ok_desktop_e = OKPaidError
    /\ ok_metadata.paymentInfo
    /\ ok_metadata.hlsManifestUrl = "h1"
    /\ ok_fetches["h1"] = 1
    /\ ok_pc = "mobile"

\* C24: no error leaves _real_extract before the mobile path was tried, and
\* a result of the desktop path is returned without a mobile page request.
C24_MobileTriedBeforeFailure ==
    /\ ok_pc = "fail" => ok_mobile_pages > 0
    /\ (ok_pc = "done" /\ ok_result # "mobile") => ok_mobile_pages = 0

\* C25: the desktop page is downloaded at most twice; a second download
\* happens only for an embed url and carries the substituted referrer; the
\* resolution ends.
C25_RetryAtMostOnce ==
    /\ [](/\ ok_pages <= 2
          /\ ok_pages = 2 => (ok_mode = "videoembed"
                               /\ ok_referrer = "https://boosty.to")
          /\ ok_referrer = "https://boosty.to" => ok_pages >= 1)
    /\ [][ok_referrer' # ok_referrer =>
              /\ ok_mode = "videoembed"
              /\ ok_referrer = None
              /\ ok_referrer' = "https://boosty.to"
              /\ ok_pages' = 1
              /\ ok_pc' = "desktop"]_vars
    /\ <>(ok_pc \in {"done", "fail"})

\* the retried page was downloaded and the resolution went on
C25_Witness ==
    /\ ok_pages = 2
    /\ ok_mode = "videoembed"
    /\ ok_referrer = "https://boosty.to"
    /\ ok_pc = "done"
    /\ ok_result = "info"

OKExternalWithUrl == ok_player.isExternalPlayer /\ ok_player.url # None

OKRedirected ==
    \/ ok_pc \notin {"desktop", "player"} /\ OKExternalWithUrl
    \/ /\ ok_pc \notin {"desktop", "player", "metadata"}
       /\ ok_metadata.provider \in OKRedirectProviders

\* C26: with an external player that has a url, or with the provider
\* OPEN_GRAPH or USER_YOUTUBE, the desktop path returns a redirect: no
\* manifest is fetched, no format assigned, the mobile page not asked.
C26_RedirectWithoutFormats ==
    OKRedirected =>
        /\ ok_pc = "done"
        /\ ok_result = IF OKExternalWithUrl THEN "url" ELSE "url_transparent"
        /\ ok_formats = <<>>
        /\ \A u \in OKManifestURLs : ok_fetches[u] = 0
        /\ ok_mobile_pages = 0
        /\ ok_raised = NoError

-----------------------------------------------------------------------------
(* Zattoo: what a stream type or watch entry without formats leaves behind *)

\* the urls of the formats the manifests of valid watch urls hold
ZTFormatUrls == {u \o sfx : u \in ZTValidURLs, sfx \in {"/v", "/500"}}

ZTInLoop ==
    \/ zt_pc = "watch"
    \/ zt_pc = "stream" /\ zt_stream <= Len(ZTStreamTypes)

\* C23: every step of the two loops of _extract_formats raises nothing,
\* keeps the formats collected so far and moves on to the next watch entry
\* or stream type; a stream type without a usable response adds nothing,
\* and no format comes from an entry without a valid url.
C23_SkipAndContinue ==
    [][ZTInLoop =>
          /\ zt_raised' = NoError
          /\ zt_pc' \in {"stream", "watch"}
          /\ IsPrefix(zt_formats, zt_formats')
          /\ \A i \in 1..Len(zt_formats') : zt_formats'[i].url \in ZTFormatUrls
          /\ zt_pc = "stream" =>
                /\ zt_formats' = zt_formats
                /\ \/ zt_pc' = "stream" /\ zt_stream' = zt_stream + 1
                   \/ zt_pc' = "watch" /\ zt_stream' = zt_stream /\ zt_widx' = 1
          /\ zt_pc = "watch" =>
                IF zt_widx = zt_wn
                THEN zt_pc' = "stream" /\ zt_stream' = zt_stream + 1
                ELSE /\ zt_pc' = "watch"
                     /\ zt_stream' = zt_stream
                     /\ zt_widx' = zt_widx + 1]_vars

\* the first hls7 entry gave nothing, the dash format is still there, and
\* the second entry is next
C23_Witness ==
    /\ zt_pc = "watch"
    /\ zt_stream = 2
    /\ zt_widx = 2
    /\ Len(zt_formats) = 1
    /\ zt_formats[1].url = "w1/v"

-----------------------------------------------------------------------------
(* HiDive: the None in parsed_urls *)

\* the rendition the loop is at has no valid bitrates.hls
HDAtUrlLessRendition ==
    /\ hd_pc = "m3u8"
    /\ hd_ridx <= Len(hd_setting.renditions)
    /\ hd_setting.renditions[hd_ridx].id_parts = 3
    /\ UrlOrNone(hd_setting.renditions[hd_ridx].hls) = None

\* C27: parsed_urls holds None from the start on; a rendition whose HLS url
\* is absent or no url is passed over without a manifest fetch and without
\* formats; within a resolution parsed_urls only grows.
C27_SentinelAndMonotone ==
    /\ [](None \in hd_parsed_urls)
    /\ [][/\ HDAtUrlLessRendition =>
                /\ UNCHANGED <<hd_fetches, hd_formats, hd_parsed_urls>>
                /\ hd_ridx' = hd_ridx + 1
          /\ hd_pc \notin {"done", "fail"} =>
                hd_parsed_urls \subseteq hd_parsed_urls']_vars

\* the second rendition had no url: the first one's url is still seen and
\* nothing else was fetched
C27_Witness ==
    /\ hd_pc = "m3u8"
    /\ hd_ridx = 3
    /\ hd_setting.renditions[1].hls = "m1"
    /\ hd_setting.renditions[2].hls = "bogus"
    /\ hd_parsed_urls = {None, "m1"}
    /\ hd_fetches["m1"] = 1
    /\ hd_fetches["m2"] = 0

-----------------------------------------------------------------------------
(* CBS: the items the loop passes over *)

\* the asset type of the i-th SMIL request made
CBSFetched(i) == cbs_items[cbs_log[i].at]

\* the loop is at an item without asset type, of a DRM type, or of a name
\* that was requested before
CBSAtSkippedItem ==
    /\ cbs_pc = "loop"
    /\ cbs_idx <= Len(cbs_items)
    /\ \/ cbs_items[cbs_idx] \in {"", "HLS_FPS_PRECON", "DASH_CENC"}
       \/ \E i \in 1..Len(cbs_log) : CBSFetched(i) = cbs_items[cbs_idx]

\* C28: no asset-type name is requested twice, items without asset type and
\* DRM types are never requested, and passing over an item leaves last_e,
\* formats and subtitles as they are.
C28_EachAssetTypeOnce ==
    /\ [](\A i \in 1..Len(cbs_log) :
            /\ CBSFetched(i) \notin {"", "HLS_FPS_PRECON", "DASH_CENC"}
            /\ \A j \in 1..Len(cbs_log) : CBSFetched(i) = CBSFetched(j) => i = j)
    /\ [][CBSAtSkippedItem =>
              /\ UNCHANGED <<cbs_log, cbs_last_e, cbs_formats, cbs_subtitles,
                             cbs_asset_types, cbs_raised>>
              /\ cbs_idx' = cbs_idx + 1]_vars

\* RTMP was requested once and gave a format; its repetition and the DRM
\* item were passed over
C28_Witness ==
    /\ cbs_items = <<"RTMP", "RTMP", "DASH_CENC">>
    /\ cbs_idx = 4
    /\ Len(cbs_log) = 1
    /\ Len(cbs_formats) = 1
    /\ cbs_last_e = NoError

-----------------------------------------------------------------------------
(* Zattoo: the three requests of _real_initialize *)

ZTInitializeRequests == <<"token", "hello", "login">>

\* _real_initialize has returned
ZTInitialized ==
    \/ zt_pc \in {"ready", "info", "stream", "watch", "return", "done"}
    \/ zt_pc = "fail" /\ zt_raised.at >= 4

\* C29: the requests of _real_initialize are a prefix of token, hello,
\* login; a failed step is the last request made; _power_guide_hash is
\* written only from the answer of a successful login and is there whenever
\* _real_initialize has returned.
C29_InitializeOrder ==
    /\ [](/\ IsPrefix(zt_requests, ZTInitializeRequests)
          /\ zt_power_guide_hash # None =>
                /\ zt_requests = ZTInitializeRequests
                /\ zt_login_response.status = "200"
                /\ zt_power_guide_hash = zt_login_response.power_guide_hash
          /\ ZTInitialized =>
                /\ zt_requests = ZTInitializeRequests
                /\ zt_power_guide_hash # None
          /\ (zt_pc = "fail" /\ zt_raised.at \in 1..3) =>
                /\ zt_power_guide_hash = None
                /\ Len(zt_requests) \in {zt_raised.at, zt_raised.at - 1}
                /\ Len(zt_requests) = zt_raised.at - 1 =>
                      zt_raised.kind = "LoginRequired")
    /\ [][zt_requests' # zt_requests =>
              /\ zt_raised = NoError
              /\ Len(zt_requests') = Len(zt_requests) + 1
              /\ ~ZTInitialized]_vars

\* _real_initialize has just returned: three requests, the hash of the
\* login answer
C29_Witness ==
    /\ zt_pc = "ready"
    /\ zt_kind = None
    /\ zt_raised = NoError
    /\ zt_requests = ZTInitializeRequests
    /\ zt_login_response.status = "200"
    /\ zt_power_guide_hash = "hash"

-----------------------------------------------------------------------------
(* Podchaser: the pages of a podcast *)

\* the loop over the pages has ended
PODListed == ~pod_audio_id /\ pod_pc \in {"podcast", "done"}

\* C30: the episodes collected never exceed the total of the first listing
\* request; a page is taken whole or not at all; a listing that ran to its
\* end made total // 100 + 1 page requests; the result is a playlist
\* exactly for more than one episode and a single result for exactly one.
C30_Pagination ==
    /\ [](/\ ~pod_audio_id => pod_episodes <= pod_total
          /\ pod_requests <= PODPages(pod_total)
          /\ pod_pc = "pages" => pod_requests = pod_i
          /\ PODListed => pod_requests = pod_total \div 100 + 1
          /\ pod_audio_id => pod_requests = 0
          /\ pod_pc = "done" =>
                /\ pod_result = "playlist" <=> pod_episodes > 1
                /\ pod_result = "single" <=> pod_episodes = 1
          /\ pod_result # None => pod_pc = "done")
    /\ [][pod_pc = "pages" =>
              /\ \/ pod_episodes' = pod_episodes
                 \/ /\ pod_episodes' - pod_episodes \in PODPageLengths
                    /\ pod_episodes' <= pod_total
              /\ pod_dropped' # pod_dropped => pod_episodes' = pod_episodes]_vars

\* a total of 101: a page of 100 was taken, the other page would have
\* overshot and was dropped whole, and the playlist returned
C30_Witness ==
    /\ pod_pc = "done"
    /\ pod_total = 101
    /\ pod_requests = 2
    /\ pod_dropped = 1
    /\ pod_episodes = 100
    /\ pod_result = "playlist"

====
